---------------------------- MODULE Spec2Model ----------------------------
(***************************************************************************)
(* Model of the leaderboard generator (src/scripts/generateLeaderboard.ts) *)
(* of community-dashboard: scoring, deduplication and recomputation, the   *)
(* incremental year run and the week / month projections.                  *)
(*                                                                         *)
(* Time is an integer number of ticks; a calendar day has TicksPerDay      *)
(* ticks.  A timestamp string ("2024-05-01T10:00:00Z") is modelled by its  *)
(* tick, and its date part (iso(), slice(0, 10), split("T")[0]) by the day *)
(* number Day(t).  A contributor's name and avatar_url are copied along    *)
(* with role and never read, so the records carry role only.               *)
(***************************************************************************)
EXTENDS Integers, Sequences, FiniteSets, TLC

VARIABLES
    clock,          \* wall clock (Date.now(), new Date())
    world,          \* the upstream platform: the items that exist there
    disk,           \* public/leaderboard: year, week, month, recent files
    pc,             \* position of generateYear (or of a function under test)
    now,            \* generateYear: const now = new Date()
    since,          \* generateYear: let since
    existing,       \* generateYear: const existing = loadExistingYearData()
    isIncremental,  \* generateYear: const isIncremental
    users,          \* generateYear: the Map<string, Contributor>, in insertion order
    yearData,       \* generateYear: const yearData (passed to derivePeriod)
    runs,           \* number of generateYear runs started
    input,          \* the argument a function taken on its own was called with
    response,       \* GET: the body handed to NextResponse.json
    allRepos,       \* fetchAllReviews: const allRepos = await fetchOrgRepos()
    written,        \* generateYear: the files this run has written so far
    requests,       \* searchByDateChunks on its own: the requests sent to ghSearch
    batches,        \* a batched fan-out on its own: the batches not yet joined
    inFlight,       \* a batched fan-out on its own: the detail requests pending
    reviewResults,  \* fetchAllReviews on its own: results of the batch resolved so far
    reviewSeen      \* fetchAllReviews on its own: const reviewSeen

vars == <<clock, world, disk, pc, now, since, existing, isIncremental, users,
          yearData, runs, input, response, allRepos, written, requests, batches,
          inFlight, reviewResults, reviewSeen>>

\* the state of the functions that are also run on their own
onTheirOwn == <<requests, batches, inFlight, reviewResults, reviewSeen>>

-----------------------------------------------------------------------------
(* Bounds of the model *)

TicksPerDay == 3
StartDay == 400
MaxLog == 3
MaxTicks == 3
MaxRuns == 2
MaxItems == 2
\* items on a page of a listing (per_page)
PerPage == 1

(* Program constants *)

YearDays == 365
StepDays == 30
WeekDays == 7
MonthDays == 30
RecentDays == 14

-----------------------------------------------------------------------------
(* Values *)

NULL == "<null>"

\* `${x}` of a value that may be null
Str(x) == IF x = NULL THEN "null" ELSE x

T0 == StartDay * TicksPerDay

Day(t) == t \div TicksPerDay

iso(d) == Day(d)

Days(n) == n * TicksPerDay

POINTS(type) ==
    CASE type = "PR opened" -> 2
      [] type = "PR merged" -> 5
      [] type = "Issue opened" -> 1
      [] type = "Review submitted" -> 4
      [] type = "Issue labeled" -> 2
      [] type = "Issue assigned" -> 2
      [] type = "Issue closed" -> 1

RawActivity(type, at, title, link, points) ==
    [type |-> type, occured_at |-> at, title |-> title, link |-> link,
     points |-> points]

NewContributor(username, role) ==
    [username |-> username, role |-> role, total_points |-> 0,
     activity_breakdown |-> <<>>, daily_activity |-> <<>>,
     raw_activities |-> <<>>]

-----------------------------------------------------------------------------
(* Sequence helpers *)

RECURSIVE SumPoints(_)
SumPoints(s) == IF s = <<>> THEN 0 ELSE Head(s).points + SumPoints(Tail(s))

RECURSIVE SumCounts(_)
SumCounts(s) == IF s = <<>> THEN 0 ELSE Head(s).count + SumCounts(Tail(s))

Range(s) == {s[i] : i \in DOMAIN s}

SeqUpTo(S, n) == UNION {[1..k -> S] : k \in 0..n}

\* Array.prototype.sort((a, b) => key(b) - key(a)): a stable sort, descending
\* by key.  A sequence of <<key, element>> pairs stands for the array.
RECURSIVE InsertDescending(_, _)
InsertDescending(s, x) ==
    IF s = <<>> THEN <<x>>
    ELSE IF x[1] > Head(s)[1] THEN <<x>> \o s
    ELSE <<Head(s)>> \o InsertDescending(Tail(s), x)

RECURSIVE SortDescending(_)
SortDescending(s) ==
    IF s = <<>> THEN <<>>
    ELSE InsertDescending(SortDescending(SubSeq(s, 1, Len(s) - 1)), s[Len(s)])

-----------------------------------------------------------------------------
(* deduplicateAndRecalculate *)

\* const key = `${act.type}:${act.occured_at}:${act.link ?? act.title}`
Key(act) ==
    act.type \o ":" \o ToString(act.occured_at) \o ":"
        \o Str(IF act.link # NULL THEN act.link ELSE act.title)

\* A filter that keeps the last occurrence of a key instead of the first.
RECURSIVE DedupFilterKeepLast(_, _)
DedupFilterKeepLast(log, seen) ==
    IF log = <<>> THEN <<>>
    ELSE LET act == log[Len(log)]
             key == Key(act)
             front == SubSeq(log, 1, Len(log) - 1)
         IN IF key \in seen
            THEN DedupFilterKeepLast(front, seen)
            ELSE DedupFilterKeepLast(front, seen \cup {key}) \o <<act>>

\* A filter that compares a key with the key just before it only.
RECURSIVE DedupFilterAdjacent(_, _)
DedupFilterAdjacent(log, seen) ==
    IF log = <<>> THEN <<>>
    ELSE LET act == Head(log)
             key == Key(act)
         IN IF key \in seen
            THEN DedupFilterAdjacent(Tail(log), {key})
            ELSE <<act>> \o DedupFilterAdjacent(Tail(log), {key})

\* user.raw_activities.filter(act => { if (seen.has(key)) return false; ... })
RECURSIVE DedupFilter(_, _)
DedupFilter(log, seen) ==
    IF log = <<>> THEN <<>>
    ELSE LET act == Head(log)
             key == Key(act)
         IN IF key \in seen
            THEN DedupFilter(Tail(log), seen)
            ELSE <<act>> \o DedupFilter(Tail(log), seen \cup {key})

\* breakdown[type] ??= {count: 0, points: 0}; count += 1; points += points
AddToBreakdown(breakdown, type, points) ==
    IF \E i \in DOMAIN breakdown : breakdown[i].label = type
    THEN LET k == CHOOSE i \in DOMAIN breakdown : breakdown[i].label = type
         IN [breakdown EXCEPT ![k] = [@ EXCEPT !.count = @ + 1, !.points = @ + points]]
    ELSE Append(breakdown, [label |-> type, count |-> 1, points |-> points])

\* A day bucket that counts a further activity of a day without its points.
AddToDailyDropPoints(daily, day, points) ==
    IF \E i \in DOMAIN daily : daily[i].date = day
    THEN LET k == CHOOSE i \in DOMAIN daily : daily[i].date = day
         IN [daily EXCEPT ![k] = [@ EXCEPT !.count = @ + 1]]
    ELSE Append(daily, [date |-> day, count |-> 1, points |-> points])

\* the per-day bucket (dailyMap / daily_activity.find), in insertion order
AddToDaily(daily, day, points) ==
    IF \E i \in DOMAIN daily : daily[i].date = day
    THEN LET k == CHOOSE i \in DOMAIN daily :
                     /\ daily[i].date = day
                     /\ \A j \in 1..(i - 1) : daily[j].date # day
         IN [daily EXCEPT ![k] = [@ EXCEPT !.count = @ + 1, !.points = @ + points]]
    ELSE Append(daily, [date |-> day, count |-> 1, points |-> points])

\* the recalculation loop over user.raw_activities
RECURSIVE Recalculate(_, _)
Recalculate(user, log) ==
    IF log = <<>> THEN user
    ELSE LET act == Head(log)
         IN Recalculate(
              [user EXCEPT
                 !.total_points = @ + act.points,
                 !.activity_breakdown = AddToBreakdown(@, act.type, act.points),
                 !.daily_activity = AddToDaily(@, Day(act.occured_at), act.points)],
              Tail(log))

\* .sort((a, b) => b.date.localeCompare(a.date))
SortByDateDescending(daily) ==
    LET sorted == SortDescending([i \in DOMAIN daily |-> <<daily[i].date, daily[i]>>])
    IN [i \in DOMAIN sorted |-> sorted[i][2]]

\* A recalculation that adds to the stored totals instead of clearing them.
DedupUserNoReset(user) ==
    LET log == DedupFilter(user.raw_activities, {})
        folded == Recalculate([user EXCEPT !.raw_activities = log], log)
    IN [folded EXCEPT !.daily_activity = SortByDateDescending(@)]

DedupUser(user) ==
    LET log == DedupFilter(user.raw_activities, {})
        cleared == [user EXCEPT !.raw_activities = log,
                                !.total_points = 0,
                                !.activity_breakdown = <<>>,
                                !.daily_activity = <<>>]
        folded == Recalculate(cleared, log)
    IN [folded EXCEPT !.daily_activity = SortByDateDescending(@)]

deduplicateAndRecalculate(map) == [i \in DOMAIN map |-> DedupUser(map[i])]

-----------------------------------------------------------------------------
(* Inputs of deduplicateAndRecalculate taken on its own: any log over a    *)
(* few activities that collide and differ in every component of the key,   *)
(* with fresh or stale derived fields.                                     *)

ActUniverse ==
    { RawActivity("PR opened", T0, "T1", "L1", 2),
      RawActivity("PR opened", T0, "T2", "L1", 2),
      RawActivity("PR opened", T0, "T1", "L1", 3),
      RawActivity("PR merged", T0 + 1, "T1", "L1", 5),
      RawActivity("Issue labeled", T0, "T1", NULL, 2),
      RawActivity("Issue labeled", T0 + TicksPerDay, "T1", NULL, 2) }

StaleContributor(username, log) ==
    [username |-> username, role |-> "Contributor", total_points |-> 99,
     activity_breakdown |-> <<[label |-> "PR merged", count |-> 9, points |-> 45]>>,
     daily_activity |-> <<[date |-> 1, count |-> 9, points |-> 45]>>,
     raw_activities |-> log]

FreshContributor(username, log) ==
    [NewContributor(username, "Contributor") EXCEPT !.raw_activities = log]

DedupInputs ==
    LET first == {FreshContributor("alice", l) : l \in SeqUpTo(ActUniverse, MaxLog)}
                 \cup {StaleContributor("alice", l) : l \in SeqUpTo(ActUniverse, MaxLog)}
        second == {FreshContributor("bob", l) : l \in SeqUpTo(ActUniverse, 1)}
    IN {<<a>> : a \in first} \cup {<<a, b>> : a \in first, b \in second}

-----------------------------------------------------------------------------
(* The upstream platform.  An item exists upstream from its timestamp on.  *)

NoTime == -1

PullRequest(link, number, login, type, title, created, merged) ==
    [html_url |-> link, number |-> number, login |-> login, type |-> type,
     title |-> title, created_at |-> created, closed_at |-> merged]

Review(link, login, type, state, submitted) ==
    [pr |-> link, login |-> login, type |-> type, state |-> state,
     submitted_at |-> submitted]

Issue(link, number, login, type, title, created) ==
    [html_url |-> link, number |-> number, login |-> login, type |-> type,
     title |-> title, created_at |-> created]

IssueEvent(link, event, login, type, created, label, assignee) ==
    [issue |-> link, event |-> event, login |-> login, type |-> type,
     created_at |-> created, label |-> label, assignee |-> assignee]

\* the repositories of the organization, in listing order
OrgRepos == <<"r1", "r2", "r3">>

\* failing: the requests the platform answers with a non-2xx status and the
\* files the file system refuses to write, for the time being
NoWorld ==
    [prs |-> {}, reviews |-> {}, issues |-> {}, events |-> {}, repos |-> OrgRepos,
     failing |-> {}]

Max(S) == CHOOSE x \in S : \A y \in S : y <= x

Exists(t) == t # NoTime /\ t <= clock

\* GitHub's updated_at of a pull request: its latest visible change
PRUpdatedAt(pr) ==
    Max({pr.created_at}
        \cup {t \in {pr.closed_at} : Exists(t)}
        \cup {r.submitted_at : r \in {x \in world.reviews :
                                       x.pr = pr.html_url /\ Exists(x.submitted_at)}})

\* GitHub's updated_at of an issue
IssueUpdatedAt(issue) ==
    Max({issue.created_at}
        \cup {e.created_at : e \in {x \in world.events :
                                     x.issue = issue.html_url /\ Exists(x.created_at)}})

\* The items matching a search query, each with the value of the query's date
\* field: q = org:ORG+is:pr (created), +is:merged (merged), is:issue (created),
\* is:issue (updated).
Matching(query) ==
    CASE query = "is:pr" ->
           {<<pr.created_at, pr>> : pr \in {x \in world.prs : Exists(x.created_at)}}
      [] query = "is:pr+is:merged" ->
           {<<pr.closed_at, pr>> : pr \in {x \in world.prs :
                                     Exists(x.created_at) /\ Exists(x.closed_at)}}
      [] query = "is:issue" ->
           {<<i.created_at, i>> : i \in {x \in world.issues : Exists(x.created_at)}}
      [] query = "is:issue updated" ->
           {<<IssueUpdatedAt(i), i>> : i \in {x \in world.issues : Exists(x.created_at)}}

\* A set of <<date, item>> pairs as the response lists it (latest first).
RECURSIVE Listed(_)
Listed(S) ==
    IF S = {} THEN <<>>
    ELSE LET x == CHOOSE y \in S : \A z \in S : z[1] <= y[1]
         IN <<x[2]>> \o Listed(S \ {x})

\* page number `page` of a listing, PerPage items a page
Page(listing, page) ==
    SubSeq(listing, (page - 1) * PerPage + 1,
           IF page * PerPage < Len(listing) THEN page * PerPage ELSE Len(listing))

\* The platform serves the first 1000 results of a search, 100 a page: pages
\* 1 to 10.  A request for a later page is refused (422).
ResultPages == 10

\* One search request, q=...+dateField:from..to&per_page=100&page=N, both days
\* included, and what comes back: ok is res.ok, items is res.items.
ghSearch(query, from, to, page) ==
    IF <<"search", query>> \in world.failing \/ page > ResultPages
    THEN [from |-> from, to |-> to, page |-> page, ok |-> FALSE, items |-> <<>>]
    ELSE [from |-> from, to |-> to, page |-> page, ok |-> TRUE,
          items |-> Page(Listed({m \in Matching(query) :
                                    from <= Day(m[1]) /\ Day(m[1]) <= to}), page)]

\* the requests of the first page only of a window
WindowFirstPageOnly(query, from, to, page) ==
    <<ghSearch(query, from, to, page)>>

\* let page = 1; while (true) { ...; if (!res.items || res.items.length < 100)
\* break; page++ }: the requests of one window from page `page` on, the last
\* one being the refused one when ghSearch throws
RECURSIVE WindowRequests(_, _, _, _)
WindowRequests(query, from, to, page) ==
    LET res == ghSearch(query, from, to, page)
    IN IF ~res.ok \/ Len(res.items) < PerPage THEN <<res>>
       ELSE <<res>> \o WindowRequests(query, from, to, page + 1)

\* while (cursor < end) { ...; cursor = to }: the requests of a whole search in
\* the order they are sent; a refused request is the last one
RECURSIVE SearchRequests(_, _, _, _)
SearchRequests(query, cursor, end, stepDays) ==
    IF ~(cursor < end) THEN <<>>
    ELSE LET next == cursor + Days(stepDays)
             to == IF next > end THEN end ELSE next
             sent == WindowRequests(query, iso(cursor), iso(to), 1)
         IN IF ~sent[Len(sent)].ok THEN sent
            ELSE sent \o SearchRequests(query, to, end, stepDays)

\* all.push(...(res.items ?? [])) over the requests of a search
RECURSIVE AllItems(_)
AllItems(sent) ==
    IF sent = <<>> THEN <<>> ELSE Head(sent).items \o AllItems(Tail(sent))

\* if (!res.ok) throw: a search whose request is refused rejects, and nothing
\* catches it before generateYear().catch
SearchThrows(query, cursor, end) ==
    LET sent == SearchRequests(query, cursor, end, StepDays)
    IN sent # <<>> /\ ~sent[Len(sent)].ok

searchByDateChunks(query, cursor, end, stepDays) ==
    AllItems(SearchRequests(query, cursor, end, stepDays))

-----------------------------------------------------------------------------
(* Core helpers *)

CORE_TEAM_USERNAMES == {"alice"}
ALUMNI_USERNAMES == {"carol"}

\* toLowerCase() of the logins of the model
ToLowerCase(login) ==
    CASE login = "Alice" -> "alice"
      [] login = "Carol" -> "carol"
      [] login = "Bob"   -> "bob"
      [] OTHER -> login

\* d.setDate(d.getDate() - n) on new Date()
daysAgo(n) == clock - Days(n)

\* login.endsWith("[bot]") over the logins of the model
EndsWithBotTag(login) == login \in {"dependabot[bot]"}

isBotUser(login, type) ==
    \/ login = NULL
    \/ type # NULL /\ type # "User"
    \/ EndsWithBotTag(login)

\* brackets removed, ":" replaced by " - ", white space collapsed, trimmed
sanitizeTitle(title) ==
    CASE title = NULL -> NULL
      [] title = "" -> NULL
      [] title = "[WIP] fix: crash" -> "WIP fix - crash"
      [] OTHER -> title

Has(map, login) == \E i \in DOMAIN map : map[i].username = login

IndexOf(map, login) == CHOOSE i \in DOMAIN map : map[i].username = login

resolveRole(login) ==
    IF ToLowerCase(login) \in CORE_TEAM_USERNAMES THEN "Maintainer"
    ELSE IF ToLowerCase(login) \in ALUMNI_USERNAMES THEN "Alumni"
    ELSE "Contributor"

ensureUser(map, login) ==
    IF Has(map, login) THEN map
    ELSE Append(map, NewContributor(login, resolveRole(login)))

\* An addActivity whose points grow with the number of activities the
\* contributor already has.
addActivityWeighted(entry, type, date, points, title, link) ==
    LET weighted == points * (1 + Len(entry.raw_activities))
    IN [entry EXCEPT
          !.total_points = @ + weighted,
          !.activity_breakdown = AddToBreakdown(@, type, weighted),
          !.daily_activity = AddToDaily(@, Day(date), weighted),
          !.raw_activities =
              Append(@, RawActivity(type, date, sanitizeTitle(title), link, weighted))]

addActivity(entry, type, date, points, title, link) ==
    [entry EXCEPT
       !.total_points = @ + points,
       !.activity_breakdown = AddToBreakdown(@, type, points),
       !.daily_activity = AddToDaily(@, Day(date), points),
       !.raw_activities =
           Append(@, RawActivity(type, date, sanitizeTitle(title), link, points))]

\* addActivity(ensureUser(users, user), ...)
Record(map, login, type, date, title, link) ==
    LET ensured == ensureUser(map, login)
    IN [ensured EXCEPT ![IndexOf(ensured, login)] =
           addActivity(@, type, date, POINTS(type), title, link)]

\* the three loops of generateYear over search results
RECURSIVE RecordSearchItems(_, _, _)
RecordSearchItems(map, items, type) ==
    IF items = <<>> THEN map
    ELSE LET item == Head(items)
             date == IF type = "PR merged" THEN item.closed_at ELSE item.created_at
         IN RecordSearchItems(
              IF isBotUser(item.login, item.type) THEN map
              ELSE Record(map, item.login, type, date, item.title, item.html_url),
              Tail(items), type)

-----------------------------------------------------------------------------
(* Review fetching *)

RECURSIVE Reverse(_)
Reverse(s) == IF s = <<>> THEN <<>> ELSE Reverse(Tail(s)) \o <<Head(s)>>

\* the repository of a pull request, from its address
RepoOf(html_url) == IF html_url \in {"pf2"} THEN "r2" ELSE "r1"

\* the while (true) loop of fetchOrgRepos, from page `page` on
RECURSIVE OrgRepoPages(_)
OrgRepoPages(page) ==
    IF <<"repos", page>> \in world.failing THEN <<>>
    ELSE LET data == Page(world.repos, page)
         IN IF data = <<>> THEN <<>> ELSE data \o OrgRepoPages(page + 1)

\* A listing that gives up what it collected when a page fails.
fetchOrgReposAllOrNothing ==
    IF \E f \in world.failing : f[1] = "repos" THEN <<>> ELSE world.repos

fetchOrgRepos == OrgRepoPages(1)

\* pulls?state=all&sort=updated&direction=desc of one repository
PullsOf(repo) ==
    Listed({<<PRUpdatedAt(pr), pr>> :
              pr \in {x \in world.prs : Exists(x.created_at) /\ RepoOf(x.html_url) = repo}})

\* the while (true) loop of fetchRepoPRs, from page `page` on
RECURSIVE RepoPRPages(_, _, _)
RepoPRPages(listing, page, sinceDate) ==
    IF <<"pulls", page>> \in world.failing THEN <<>>
    ELSE LET data == Page(listing, page)
         IN IF data = <<>> THEN <<>>
            ELSE SelectSeq(data, LAMBDA pr : PRUpdatedAt(pr) >= sinceDate)
                   \o (IF PRUpdatedAt(data[Len(data)]) < sinceDate THEN <<>>
                       ELSE RepoPRPages(listing, page + 1, sinceDate))

fetchRepoPRs(repo, sinceDate) == RepoPRPages(PullsOf(repo), 1, sinceDate)

\* pulls/{number}/reviews: the reviews of a pull request, oldest first
fetchPRReviews(pr) ==
    IF <<"reviews", pr.number>> \in world.failing THEN <<>>
    ELSE Reverse(Listed({<<r.submitted_at, r>> :
                           r \in {x \in world.reviews :
                                    x.pr = pr.html_url /\ Exists(x.submitted_at)}}))

\* reviewResults, flattened: <<pr, review>> in processing order
RECURSIVE ReviewResults(_)
ReviewResults(prs) ==
    IF prs = <<>> THEN <<>>
    ELSE LET pr == Head(prs)
             reviews == fetchPRReviews(pr)
         IN [i \in DOMAIN reviews |-> <<pr, reviews[i]>>] \o ReviewResults(Tail(prs))

\* A review filter that lets a review by the pull request's author count.
ReviewCountsSelfReviews(pr, review, sinceDate, nowDate, seen) ==
    /\ review.login # NULL
    /\ ~EndsWithBotTag(review.login)
    /\ ~(review.type # NULL /\ review.type # "User")
    /\ review.state \in {"APPROVED", "CHANGES_REQUESTED"}
    /\ ~(review.submitted_at < sinceDate \/ review.submitted_at > nowDate)
    /\ <<review.login, RepoOf(pr.html_url), pr.number>> \notin seen

ReviewCounts(pr, review, sinceDate, nowDate, seen) ==
    /\ review.login # NULL
    /\ ~EndsWithBotTag(review.login)
    /\ ~(review.type # NULL /\ review.type # "User")
    /\ review.login # pr.login
    /\ review.state \in {"APPROVED", "CHANGES_REQUESTED"}
    /\ ~(review.submitted_at < sinceDate \/ review.submitted_at > nowDate)
    /\ <<review.login, RepoOf(pr.html_url), pr.number>> \notin seen

RECURSIVE RecordReviews(_, _, _, _, _)
RecordReviews(map, seen, results, sinceDate, nowDate) ==
    IF results = <<>> THEN map
    ELSE LET pr == Head(results)[1]
             review == Head(results)[2]
         IN IF ReviewCounts(pr, review, sinceDate, nowDate, seen)
            THEN RecordReviews(
                   Record(map, review.login, "Review submitted", review.submitted_at,
                          "Review on PR #" \o pr.number, pr.html_url),
                   seen \cup {<<review.login, RepoOf(pr.html_url), pr.number>>},
                   Tail(results), sinceDate, nowDate)
            ELSE RecordReviews(map, seen, Tail(results), sinceDate, nowDate)

\* for (const repoName of allRepos): the pull requests to process, in order
RECURSIVE PRsOfRepos(_, _)
PRsOfRepos(repos, sinceDate) ==
    IF repos = <<>> THEN <<>>
    ELSE fetchRepoPRs(Head(repos), sinceDate) \o PRsOfRepos(Tail(repos), sinceDate)

fetchAllReviews(map, repos, sinceDate, nowDate) ==
    RecordReviews(map, {}, ReviewResults(PRsOfRepos(repos, sinceDate)), sinceDate,
                  nowDate)

-----------------------------------------------------------------------------
(* Issue triaging activities *)

automatedLabels ==
    {"stale", "wontfix", "duplicate", "invalid", "dependencies", "security",
     "github_actions"}

\* labelName.toLowerCase().includes(auto) over the labels of the model
Includes(labelName, auto) ==
    \/ labelName = auto
    \/ <<labelName, auto>> \in {<<"security-review", "security">>}

isAutomatedLabel(labelName) == \E auto \in automatedLabels : Includes(labelName, auto)

\* issues/{number}/events: the events of an issue, oldest first
IssueEvents(issue) ==
    Reverse(Listed({<<e.created_at, e>> :
                      e \in {x \in world.events :
                               x.issue = issue.html_url /\ Exists(x.created_at)}}))

TriageEvent(map, issue, event) ==
    CASE event.event = "labeled" /\ event.label # NULL /\ ~isAutomatedLabel(event.label) ->
           Record(map, event.login, "Issue labeled", event.created_at,
                  "Labeled issue #" \o issue.number \o " - " \o event.label,
                  issue.html_url)
      [] event.event = "assigned" /\ event.assignee # NULL
            /\ event.login # event.assignee ->
           Record(map, event.login, "Issue assigned", event.created_at,
                  "Assigned issue #" \o issue.number \o " to " \o event.assignee,
                  issue.html_url)
      [] event.event = "closed" /\ event.login # issue.login ->
           Record(map, event.login, "Issue closed", event.created_at,
                  "Closed issue #" \o issue.number \o " - "
                      \o Str(sanitizeTitle(issue.title)),
                  issue.html_url)
      [] OTHER -> map

RECURSIVE TriageEvents(_, _, _, _, _)
TriageEvents(map, issue, events, sinceDate, nowDate) ==
    IF events = <<>> THEN map
    ELSE LET event == Head(events)
         IN IF \/ event.login = NULL
               \/ isBotUser(event.login, event.type)
               \/ event.created_at < sinceDate
               \/ event.created_at > nowDate
            THEN TriageEvents(map, issue, Tail(events), sinceDate, nowDate)
            ELSE TriageEvents(TriageEvent(ensureUser(map, event.login), issue, event),
                              issue, Tail(events), sinceDate, nowDate)

processIssueTriagingEvents(map, issue, sinceDate, nowDate) ==
    IF <<"events", issue.number>> \in world.failing THEN map
    ELSE TriageEvents(map, issue, IssueEvents(issue), sinceDate, nowDate)

RECURSIVE ProcessIssues(_, _, _, _)
ProcessIssues(map, issues, sinceDate, nowDate) ==
    IF issues = <<>> THEN map
    ELSE ProcessIssues(processIssueTriagingEvents(map, Head(issues), sinceDate, nowDate),
                       Tail(issues), sinceDate, nowDate)

\* no chunking: one batch with every element
chunkWhole(arr, size) ==
    IF arr = <<>> THEN <<>> ELSE <<arr>>

\* chunk(arr, size)
RECURSIVE chunk(_, _)
chunk(arr, size) ==
    IF arr = <<>> THEN <<>>
    ELSE IF Len(arr) <= size THEN <<arr>>
    ELSE <<SubSeq(arr, 1, size)>> \o chunk(SubSeq(arr, size + 1, Len(arr)), size)

\* const batchSize = 10 of fetchIssueTriagingActivities
batchSize == 10

\* the orders in which the requests of one batch can complete
Completions(batch) ==
    {[k \in DOMAIN batch |-> batch[turn[k]]] :
        turn \in {t \in [DOMAIN batch -> DOMAIN batch] :
                    \A i, j \in DOMAIN batch : i # j => t[i] # t[j]}}

\* Promise.all over each batch in turn: the orders in which the calls of
\* processIssueTriagingEvents can get their answer and run to their end
RECURSIVE CompletionOrders(_)
CompletionOrders(issueBatches) ==
    IF issueBatches = <<>> THEN {<<>>}
    ELSE {first \o rest : first \in Completions(Head(issueBatches)),
                          rest \in CompletionOrders(Tail(issueBatches))}

\* const updatedIssues = await searchByDateChunks(...)
updatedIssues(sinceDate, nowDate) ==
    searchByDateChunks("is:issue updated", sinceDate, nowDate, StepDays)

\* the calls complete in the order `order` of the updated issues
fetchIssueTriagingActivities(map, order, sinceDate, nowDate) ==
    ProcessIssues(map, order, sinceDate, nowDate)

-----------------------------------------------------------------------------
(* Persisted files *)

NoFile ==
    [status |-> "absent", period |-> "", updatedAt |-> 0, lastFetchedAt |-> NoTime,
     startDate |-> 0, endDate |-> 0, entries |-> <<>>]

CorruptFile == [NoFile EXCEPT !.status = "corrupt"]

NoRecent == [status |-> "absent", updatedAt |-> 0, groups |-> <<>>]

NoDisk == [year |-> NoFile, week |-> NoFile, month |-> NoFile, recent |-> NoRecent]

\* no request answered yet
NoResponse == [status |-> 0, updatedAt |-> 0, people |-> <<>>]

\* null when year.json is missing or does not parse
loadExistingYearData(file) == IF file.status = "ok" THEN file ELSE NoFile

RECURSIVE AppendAll(_, _)
AppendAll(log, acts) ==
    IF acts = <<>> THEN log ELSE AppendAll(Append(log, Head(acts)), Tail(acts))

\* A merge that takes history only for contributors the fetch already created.
RECURSIVE mergeKnownUsersOnly(_, _)
mergeKnownUsersOnly(map, entries) ==
    IF entries = <<>> THEN map
    ELSE LET entry == Head(entries)
         IN mergeKnownUsersOnly(
              IF Has(map, entry.username)
              THEN [map EXCEPT ![IndexOf(map, entry.username)].raw_activities =
                       AppendAll(@, entry.raw_activities)]
              ELSE map,
              Tail(entries))

\* A merge that resolves the role of a reconstructed contributor from the
\* membership sets.
RECURSIVE mergeResolvingRoles(_, _)
mergeResolvingRoles(map, entries) ==
    IF entries = <<>> THEN map
    ELSE LET entry == Head(entries)
             created == IF Has(map, entry.username) THEN map
                        ELSE Append(map, NewContributor(entry.username,
                                                        resolveRole(entry.username)))
         IN mergeResolvingRoles(
              [created EXCEPT ![IndexOf(created, entry.username)].raw_activities =
                  AppendAll(@, entry.raw_activities)],
              Tail(entries))

RECURSIVE mergeExistingActivities(_, _)
mergeExistingActivities(map, entries) ==
    IF entries = <<>> THEN map
    ELSE LET entry == Head(entries)
             created == IF Has(map, entry.username) THEN map
                        ELSE Append(map, NewContributor(entry.username, entry.role))
         IN mergeExistingActivities(
              [created EXCEPT ![IndexOf(created, entry.username)].raw_activities =
                  AppendAll(@, entry.raw_activities)],
              Tail(entries))

\* .sort((a, b) => b.total_points - a.total_points)
SortByTotalDescending(entries) ==
    LET sorted == SortDescending([i \in DOMAIN entries |->
                                    <<entries[i].total_points, entries[i]>>])
    IN [i \in DOMAIN sorted |-> sorted[i][2]]

-----------------------------------------------------------------------------
(* Derived periods *)

\* the loop of derivePeriod over the filtered activities
RECURSIVE PeriodTotals(_, _)
PeriodTotals(acc, acts) ==
    IF acts = <<>> THEN acc
    ELSE LET a == Head(acts)
         IN PeriodTotals(
              [acc EXCEPT
                 !.total_points = @ + a.points,
                 !.activity_breakdown = AddToBreakdown(@, a.type, a.points),
                 !.daily_activity = AddToDaily(@, Day(a.occured_at), a.points)],
              Tail(acts))

\* A period filter that keeps every activity of the year.
PeriodActivitiesUnfiltered(entry, cutoff) == entry.raw_activities

\* A period filter that keeps what is older than the cutoff.
PeriodActivitiesOlder(entry, cutoff) ==
    SelectSeq(entry.raw_activities, LAMBDA a : a.occured_at < cutoff)

\* entry.raw_activities.filter(a => new Date(a.occured_at) >= cutoff)
PeriodActivities(entry, cutoff) ==
    SelectSeq(entry.raw_activities, LAMBDA a : a.occured_at >= cutoff)

\* A period entry that carries the year's total_points.
PeriodEntryYearTotal(entry, acts) ==
    LET acc == PeriodTotals(
                 [username |-> entry.username, role |-> entry.role, total_points |-> 0,
                  activity_breakdown |-> <<>>, daily_activity |-> <<>>,
                  activities |-> acts], acts)
    IN [acc EXCEPT !.total_points = entry.total_points]

PeriodEntry(entry, acts) ==
    PeriodTotals(
      [username |-> entry.username, role |-> entry.role, total_points |-> 0,
       activity_breakdown |-> <<>>, daily_activity |-> <<>>, activities |-> acts],
      acts)

RECURSIVE PeriodEntries(_, _)
PeriodEntries(entries, cutoff) ==
    IF entries = <<>> THEN <<>>
    ELSE LET acts == PeriodActivities(Head(entries), cutoff)
         IN (IF Len(acts) = 0 THEN <<>> ELSE <<PeriodEntry(Head(entries), acts)>>)
               \o PeriodEntries(Tail(entries), cutoff)

derivePeriod(source, days, period) ==
    LET cutoff == daysAgo(days)
    IN [status |-> "ok", period |-> period, updatedAt |-> clock,
        lastFetchedAt |-> NoTime, startDate |-> iso(cutoff), endDate |-> iso(clock),
        entries |-> SortByTotalDescending(PeriodEntries(source.entries, cutoff))]

-----------------------------------------------------------------------------
(* Recent activities *)

AddToGroup(groups, day, item) ==
    IF \E i \in DOMAIN groups : groups[i].date = day
    THEN [i \in DOMAIN groups |->
            IF groups[i].date = day
            THEN [groups[i] EXCEPT !.items = Append(@, item)]
            ELSE groups[i]]
    ELSE Append(groups, [date |-> day, items |-> <<item>>])

RECURSIVE RecentOfEntry(_, _, _, _)
RecentOfEntry(groups, entry, acts, cutoff) ==
    IF acts = <<>> THEN groups
    ELSE LET act == Head(acts)
             day == Day(act.occured_at)
         IN RecentOfEntry(
              IF day * TicksPerDay < cutoff THEN groups
              ELSE AddToGroup(groups, day,
                              [username |-> entry.username, title |-> act.title,
                               link |-> act.link, points |-> act.points]),
              entry, Tail(acts), cutoff)

RECURSIVE RecentGroups(_, _, _)
RecentGroups(groups, entries, cutoff) ==
    IF entries = <<>> THEN groups
    ELSE RecentGroups(RecentOfEntry(groups, Head(entries),
                                    Head(entries).raw_activities, cutoff),
                      Tail(entries), cutoff)

generateRecentActivities(source, days) ==
    [status |-> "ok", updatedAt |-> clock,
     groups |-> RecentGroups(<<>>, source.entries, daysAgo(days))]

-----------------------------------------------------------------------------
(* generateYear *)

\* entries of yearData: [...users.values()].filter(total_points > 0).sort(...)
YearEntries(map) ==
    SortByTotalDescending(SelectSeq(map, LAMBDA u : u.total_points > 0))

AwaitPoints == {"prsOpened", "prsMerged", "issuesOpened", "reviews", "triage"}

\* Time passes between two runs and while a run awaits the platform.
Tick ==
    /\ pc \in {"idle", "aborted"} \cup AwaitPoints
    /\ clock < T0 + MaxTicks
    /\ clock' = clock + 1
    /\ UNCHANGED <<world, disk, pc, now, since, existing, isIncremental, users,
                   yearData, runs, input, response, allRepos, written, onTheirOwn>>

Start ==
    /\ pc \in {"idle", "aborted"}
    /\ runs < MaxRuns
    /\ runs' = runs + 1
    /\ now' = clock
    /\ users' = <<>>
    /\ existing' = loadExistingYearData(disk.year)
    /\ isIncremental' = (existing'.status = "ok" /\ existing'.lastFetchedAt # NoTime)
    /\ since' = IF isIncremental' /\ existing'.lastFetchedAt # 0
                THEN existing'.lastFetchedAt
                ELSE daysAgo(YearDays)
    /\ pc' = "prsOpened"
    /\ allRepos' = <<>>
    /\ written' = {}
    /\ UNCHANGED <<clock, world, disk, yearData, input, response, onTheirOwn>>

SearchPRsOpened ==
    /\ pc = "prsOpened"
    /\ IF SearchThrows("is:pr", since, now)
       THEN pc' = "aborted" /\ users' = users
       ELSE /\ users' = RecordSearchItems(
                          users,
                          searchByDateChunks("is:pr", since, now, StepDays),
                          "PR opened")
            /\ pc' = "prsMerged"
    /\ UNCHANGED <<clock, world, disk, now, since, existing, isIncremental,
                   yearData, runs, input, response, allRepos, written, onTheirOwn>>

SearchPRsMerged ==
    /\ pc = "prsMerged"
    /\ IF SearchThrows("is:pr+is:merged", since, now)
       THEN pc' = "aborted" /\ users' = users
       ELSE /\ users' = RecordSearchItems(
                          users,
                          searchByDateChunks("is:pr+is:merged", since, now,
                                             StepDays),
                          "PR merged")
            /\ pc' = "issuesOpened"
    /\ UNCHANGED <<clock, world, disk, now, since, existing, isIncremental,
                   yearData, runs, input, response, allRepos, written, onTheirOwn>>

SearchIssuesOpened ==
    /\ pc = "issuesOpened"
    /\ IF SearchThrows("is:issue", since, now)
       THEN pc' = "aborted" /\ users' = users
       ELSE /\ users' = RecordSearchItems(
                          users,
                          searchByDateChunks("is:issue", since, now, StepDays),
                          "Issue opened")
            /\ pc' = "reviews"
    /\ UNCHANGED <<clock, world, disk, now, since, existing, isIncremental,
                   yearData, runs, input, response, allRepos, written, onTheirOwn>>

FetchReviews ==
    /\ pc = "reviews"
    /\ allRepos' = fetchOrgRepos
    /\ users' = fetchAllReviews(users, allRepos', since, now)
    /\ pc' = "triage"
    /\ UNCHANGED <<clock, world, disk, now, since, existing, isIncremental,
                   yearData, runs, input, response, written, onTheirOwn>>

FetchTriage ==
    /\ pc = "triage"
    /\ IF SearchThrows("is:issue updated", since, now)
       THEN pc' = "aborted" /\ users' = users
       ELSE /\ \E order \in CompletionOrders(chunk(updatedIssues(since, now), batchSize)) :
                 users' = fetchIssueTriagingActivities(users, order, since, now)
            /\ pc' = "merge"
    /\ UNCHANGED <<clock, world, disk, now, since, existing, isIncremental,
                   yearData, runs, input, response, allRepos, written, onTheirOwn>>

\* A merge step that saves the merged contributors to year.json as a checkpoint.
MergeWithCheckpoint ==
    /\ pc = "merge"
    /\ users' = IF isIncremental
                THEN mergeExistingActivities(users, existing.entries)
                ELSE users
    /\ disk' = [disk EXCEPT !.year = [NoFile EXCEPT !.status = "ok", !.entries = users']]
    /\ pc' = "dedup"
    /\ UNCHANGED <<clock, world, now, since, existing, isIncremental,
                   yearData, runs, input, response, allRepos, written, onTheirOwn>>

\* if (isIncremental) mergeExistingActivities(users, existing)
Merge ==
    /\ pc = "merge"
    /\ users' = IF isIncremental
                THEN mergeExistingActivities(users, existing.entries)
                ELSE users
    /\ pc' = "dedup"
    /\ UNCHANGED <<clock, world, disk, now, since, existing, isIncremental,
                   yearData, runs, input, response, allRepos, written, onTheirOwn>>

\* A run that goes from the merge to the writes without recomputing.
DedupSkipped ==
    /\ pc = "dedup"
    /\ pc' = "writeYear"
    /\ UNCHANGED <<clock, world, disk, now, since, existing, isIncremental, users,
                   yearData, runs, input, response, allRepos, written, onTheirOwn>>

Dedup ==
    /\ pc = "dedup"
    /\ users' = deduplicateAndRecalculate(users)
    /\ pc' = "writeYear"
    /\ UNCHANGED <<clock, world, disk, now, since, existing, isIncremental,
                   yearData, runs, input, response, allRepos, written, onTheirOwn>>

\* A cursor taken from the start of the run.
CursorAtRunStart == now

\* lastFetchedAt: Date.now()
Cursor == clock

\* fs.writeFileSync(file, content): when the file system refuses the write the
\* call throws; the file is then as it was, or was opened and left truncated
WriteFileSync(file, content, next) ==
    IF <<"write", file>> \in world.failing
    THEN /\ \E left \in {disk[file], IF file = "recent" THEN NoRecent ELSE CorruptFile} :
              disk' = [disk EXCEPT ![file] = left]
         /\ pc' = "aborted"
         /\ written' = written
    ELSE /\ disk' = [disk EXCEPT ![file] = content]
         /\ pc' = next
         /\ written' = written \cup {file}

WriteYear ==
    /\ pc = "writeYear"
    /\ yearData' = [status |-> "ok", period |-> "year", updatedAt |-> clock,
                    lastFetchedAt |-> Cursor,
                    startDate |-> iso(daysAgo(YearDays)), endDate |-> iso(now),
                    entries |-> YearEntries(users)]
    /\ WriteFileSync("year", yearData', "week")
    /\ UNCHANGED <<clock, world, now, since, existing, isIncremental, users,
                   runs, input, response, allRepos, onTheirOwn>>

DeriveWeek ==
    /\ pc = "week"
    /\ WriteFileSync("week", derivePeriod(yearData, WeekDays, "week"), "month")
    /\ UNCHANGED <<clock, world, now, since, existing, isIncremental, users,
                   yearData, runs, input, response, allRepos, onTheirOwn>>

DeriveMonth ==
    /\ pc = "month"
    /\ WriteFileSync("month", derivePeriod(yearData, MonthDays, "month"), "recent")
    /\ UNCHANGED <<clock, world, now, since, existing, isIncremental, users,
                   yearData, runs, input, response, allRepos, onTheirOwn>>

RecentActivities ==
    /\ pc = "recent"
    /\ WriteFileSync("recent", generateRecentActivities(yearData, RecentDays), "idle")
    /\ UNCHANGED <<clock, world, now, since, existing, isIncremental, users,
                   yearData, runs, input, response, allRepos, onTheirOwn>>

-----------------------------------------------------------------------------
(* The platform's items and the year.json files a run may start from *)

Universe ==
    { <<"pr", PullRequest("pr1", "1", "alice", "User", "[WIP] fix: crash",
                          T0 - Days(31), T0 - Days(8))>>,
      <<"pr", PullRequest("pr2", "2", "bob", "User", "T2", T0 + 1, NoTime)>>,
      <<"pr", PullRequest("pr3", "3", "alice", "User", "T3", T0 - 1, T0)>>,
      <<"review", Review("pr3", "bob", "User", "APPROVED", T0 + 1)>>,
      <<"review", Review("pr1", "bob", "User", "APPROVED", T0 - Days(8))>>,
      <<"issue", Issue("is1", "7", "bob", "User", "T4", T0 - Days(1))>>,
      <<"event", IssueEvent("is1", "labeled", "alice", "User", T0, "bug", NULL)>>,
      <<"event", IssueEvent("is1", "closed", "alice", "User", T0 + 1, NULL, NULL)>> }

Tagged(S, tag) == {x[2] : x \in {y \in S : y[1] = tag}}

Worlds ==
    { [prs |-> Tagged(S, "pr"), reviews |-> Tagged(S, "review"),
       issues |-> Tagged(S, "issue"), events |-> Tagged(S, "event"),
       repos |-> OrgRepos, failing |-> {}] :
      S \in {X \in SUBSET Universe : Cardinality(X) <= MaxItems} }

\* entries as an earlier run wrote them: a pull request of alice merged more
\* than a year ago and an issue of hers, and a pull request of carol, a
\* maintainer at the time
History ==
    YearEntries(deduplicateAndRecalculate(
      << [NewContributor("alice", "Maintainer") EXCEPT !.raw_activities =
            << RawActivity("PR merged", T0 - Days(YearDays + 1), "T0", "pr0", 5),
               RawActivity("Issue opened", T0 - Days(9), "T8", "is8", 1) >>],
         [NewContributor("carol", "Maintainer") EXCEPT !.raw_activities =
            <<RawActivity("PR opened", T0 - Days(9), "T9", "pr9", 2)>>] >>))

YearFile(cursor, entries) ==
    [status |-> "ok", period |-> "year", updatedAt |-> T0 - Days(1),
     lastFetchedAt |-> cursor, startDate |-> iso(T0 - Days(YearDays + 1)),
     endDate |-> iso(T0 - Days(1)), entries |-> entries]

InitialYearFiles ==
    {NoFile, CorruptFile}
      \cup {YearFile(cursor, entries) :
              cursor \in {NoTime, 0, T0 - Days(1)}, entries \in {<<>>, History}}

Init ==
    /\ clock = T0
    /\ world \in Worlds
    /\ disk \in {[NoDisk EXCEPT !.year = file] : file \in InitialYearFiles}
    /\ pc = "idle"
    /\ now = 0
    /\ since = 0
    /\ existing = NoFile
    /\ isIncremental = FALSE
    /\ users = <<>>
    /\ yearData = NoFile
    /\ runs = 0
    /\ input = <<>>
    /\ response = NoResponse
    /\ allRepos = <<>>
    /\ written = {}
    /\ requests = <<>>
    /\ batches = <<>>
    /\ inFlight = {}
    /\ reviewResults = {}
    /\ reviewSeen = {}

Next ==
    \/ Tick
    \/ Start
    \/ SearchPRsOpened
    \/ SearchPRsMerged
    \/ SearchIssuesOpened
    \/ FetchReviews
    \/ FetchTriage
    \/ Merge
    \/ Dedup
    \/ WriteYear
    \/ DeriveWeek
    \/ DeriveMonth
    \/ RecentActivities

Spec == Init /\ [][Next]_vars

InitDedup ==
    /\ users \in DedupInputs
    /\ input = users
    /\ response = NoResponse
    /\ allRepos = <<>>
    /\ written = {}
    /\ requests = <<>>
    /\ batches = <<>>
    /\ inFlight = {}
    /\ reviewResults = {}
    /\ reviewSeen = {}
    /\ pc = "dedup0"
    /\ clock = T0
    /\ world = NoWorld
    /\ disk = NoDisk
    /\ now = 0
    /\ since = 0
    /\ existing = NoFile
    /\ isIncremental = FALSE
    /\ yearData = NoFile
    /\ runs = 0

DedupOnce ==
    /\ pc = "dedup0"
    /\ users' = deduplicateAndRecalculate(users)
    /\ pc' = "dedup1"
    /\ UNCHANGED <<clock, world, disk, now, since, existing, isIncremental,
                   yearData, runs, input, response, allRepos, written, onTheirOwn>>

DedupTwice ==
    /\ pc = "dedup1"
    /\ users' = deduplicateAndRecalculate(users)
    /\ pc' = "dedup2"
    /\ UNCHANGED <<clock, world, disk, now, since, existing, isIncremental,
                   yearData, runs, input, response, allRepos, written, onTheirOwn>>

NextDedup == DedupOnce \/ DedupTwice

SpecDedup == InitDedup /\ [][NextDedup]_vars

-----------------------------------------------------------------------------
(* Properties of deduplicateAndRecalculate *)

ActivityTypes ==
    {"PR opened", "PR merged", "Issue opened", "Review submitted",
     "Issue labeled", "Issue assigned", "Issue closed"}

\* The identity of a raw activity: (type, occured_at, link if present else title)
IdentityKey(act) ==
    <<act.type, act.occured_at, IF act.link # NULL THEN act.link ELSE act.title>>

OfType(log, type) == SelectSeq(log, LAMBDA a : a.type = type)

BreakdownOf(breakdown, type) ==
    IF \E i \in DOMAIN breakdown : breakdown[i].label = type
    THEN breakdown[CHOOSE i \in DOMAIN breakdown : breakdown[i].label = type]
    ELSE [label |-> type, count |-> 0, points |-> 0]

TotalsAgree(user) ==
    /\ user.total_points = SumPoints(user.raw_activities)
    /\ user.total_points = SumPoints(user.activity_breakdown)
    /\ user.total_points = SumPoints(user.daily_activity)
    /\ \A type \in ActivityTypes :
          BreakdownOf(user.activity_breakdown, type).points
             = SumPoints(OfType(user.raw_activities, type))
    /\ \A i, j \in DOMAIN user.activity_breakdown :
          user.activity_breakdown[i].label = user.activity_breakdown[j].label => i = j

\* C1: after deduplicateAndRecalculate, whatever the contributors held before,
\* every contributor's total_points equals the sum of the points of its
\* raw_activities, of its activity_breakdown and of its daily_activity, and each
\* label's breakdown points equal the points of the raw activities of that label.
C1_TotalsAgree ==
    pc \in {"dedup1", "dedup2"} => \A i \in DOMAIN users : TotalsAgree(users[i])

C1_Witness ==
    /\ pc = "dedup1"
    /\ input[1].total_points = 99
    /\ Len(users[1].raw_activities) = 2
    /\ Len(input[1].raw_activities) = 3
    /\ Len(users[1].daily_activity) = 2
    /\ users[1].total_points # SumPoints(input[1].raw_activities)

\* C3: deduplicateAndRecalculate is idempotent: applying it to its own result
\* changes no contributor's raw_activities, total_points, activity_breakdown
\* or daily_activity.
C3_Idempotent == [][pc = "dedup1" => users' = users]_vars

C3_Witness ==
    /\ pc = "dedup2"
    /\ Len(users) = 2
    /\ Len(input[1].raw_activities) > Len(users[1].raw_activities)
    /\ Len(users[1].raw_activities) >= 2

\* The indices of a log whose activity has a key no earlier index has.
FirstOccurrences(log) ==
    {j \in DOMAIN log : \A k \in 1..(j - 1) : IdentityKey(log[k]) # IdentityKey(log[j])}

KeepsFirstOccurrences(in, out) ==
    LET first == FirstOccurrences(in)
    IN /\ Len(out) = Cardinality(first)
       /\ \A n \in DOMAIN out :
             \E j \in first : /\ Cardinality({k \in first : k <= j}) = n
                              /\ out[n] = in[j]

\* C4: deduplication keeps exactly the first occurrence of every identity key, in
\* log order, and each label's count is the number of distinct keys of that label.
C4_KeepsFirst ==
    pc = "dedup1" =>
       \A i \in DOMAIN users :
          /\ KeepsFirstOccurrences(input[i].raw_activities, users[i].raw_activities)
          /\ \A type \in ActivityTypes :
                BreakdownOf(users[i].activity_breakdown, type).count
                   = Cardinality({IdentityKey(a) :
                                    a \in Range(OfType(input[i].raw_activities, type))})

\* two identical "PR opened" events and one "PR merged": total 7, counts 1 and 1
C4_Witness ==
    /\ pc = "dedup1"
    /\ input[1].raw_activities =
          << RawActivity("PR opened", T0, "T1", "L1", 2),
             RawActivity("PR opened", T0, "T1", "L1", 2),
             RawActivity("PR merged", T0 + 1, "T1", "L1", 5) >>
    /\ users[1].total_points = 7
    /\ users[1].activity_breakdown =
          << [label |-> "PR opened", count |-> 1, points |-> 2],
             [label |-> "PR merged", count |-> 1, points |-> 5] >>

-----------------------------------------------------------------------------
(* Properties of generateYear *)

\* generateYear has read the prior year.json and not yet written the new one
BeforeWrite == pc \in AwaitPoints \cup {"merge", "dedup", "writeYear"}

\* the year.json on disk is the one this run wrote
YearWritten == pc \in {"week", "month", "recent"} \/ (pc = "idle" /\ runs > 0)

NoDuplicateKeys(log) ==
    \A i, j \in DOMAIN log : IdentityKey(log[i]) = IdentityKey(log[j]) => i = j

\* C2: after deduplicateAndRecalculate no contributor has two raw activities
\* with the same identity key, and neither has any entry of a year snapshot on
\* disk, after any sequence of full and incremental runs.
C2_NoDuplicateKeys ==
    /\ pc \in {"writeYear", "week", "month", "recent"} =>
          \A i \in DOMAIN users : NoDuplicateKeys(users[i].raw_activities)
    /\ disk.year.status = "ok" =>
          \A i \in DOMAIN disk.year.entries :
             NoDuplicateKeys(disk.year.entries[i].raw_activities)

\* an incremental run whose search returned again an activity of the history
C2_Witness ==
    /\ YearWritten
    /\ runs = 2
    /\ isIncremental
    /\ \E i \in DOMAIN existing.entries :
          \E j \in DOMAIN existing.entries[i].raw_activities :
             LET act == existing.entries[i].raw_activities[j]
             IN /\ act.type = "PR merged"
                /\ Day(since) <= Day(act.occured_at)
                /\ since < now

Totals(entries) == {<<e.username, e.total_points>> : e \in Range(entries)}

WorldTimes ==
    {pr.created_at : pr \in world.prs}
      \cup {pr.closed_at : pr \in {x \in world.prs : x.closed_at # NoTime}}
      \cup {r.submitted_at : r \in world.reviews}
      \cup {i.created_at : i \in world.issues}
      \cup {e.created_at : e \in world.events}

\* C5: an incremental run from a snapshot with cursor T, the platform holding no
\* event at or after T, writes a year snapshot with the same contributors and the
\* same total_points as the prior snapshot.
C5_NoNewEventsSameTotals ==
    ( /\ YearWritten
      /\ isIncremental
      /\ \A t \in WorldTimes : t < existing.lastFetchedAt )
    => Totals(disk.year.entries) = Totals(existing.entries)

HistoryKept(prior, entries) ==
    \A i \in DOMAIN prior :
       \A j \in DOMAIN prior[i].raw_activities :
          \E k \in DOMAIN entries :
             /\ entries[k].username = prior[i].username
             /\ \E l \in DOMAIN entries[k].raw_activities :
                   IdentityKey(entries[k].raw_activities[l])
                      = IdentityKey(prior[i].raw_activities[j])

HistoryUsersKept(prior, map) == \A i \in DOMAIN prior : Has(map, prior[i].username)

\* C6 as claimed: with any readable prior year snapshot, with or without a
\* cursor, every username of the prior snapshot gets an aggregate and every
\* identity key of it is in the newly written year snapshot.
C6_HistoryKeptAnyPrior ==
    /\ (pc \in {"dedup", "writeYear"} /\ existing.status = "ok") =>
          HistoryUsersKept(existing.entries, users)
    /\ (YearWritten /\ existing.status = "ok") =>
          HistoryKept(existing.entries, disk.year.entries)

\* C6: with a readable prior year snapshot that has a lastFetchedAt cursor, every
\* username of the prior snapshot gets an aggregate and every identity key of it
\* is in the newly written year snapshot.
C6_HistoryKeptWithCursor ==
    /\ (pc \in {"dedup", "writeYear"} /\ existing.status = "ok"
          /\ existing.lastFetchedAt # NoTime) =>
          HistoryUsersKept(existing.entries, users)
    /\ (YearWritten /\ existing.status = "ok" /\ existing.lastFetchedAt # NoTime) =>
          HistoryKept(existing.entries, disk.year.entries)

\* history merged for a username the fetch did not see, beside a fetched one
C6_Witness ==
    /\ YearWritten
    /\ existing.status = "ok"
    /\ existing.lastFetchedAt # NoTime
    /\ existing.entries # <<>>
    /\ Len(disk.year.entries) > Len(existing.entries)

\* C7: without a prior year snapshot, with a missing or unparsable one or one
\* without cursor the run is a full run from now - 365 days; with a cursor, of
\* any value, it is an incremental run from exactly the cursor.
C7_ModeSelection ==
    BeforeWrite =>
       IF disk.year.status = "ok" /\ disk.year.lastFetchedAt # NoTime
       THEN isIncremental /\ since = disk.year.lastFetchedAt
       ELSE ~isIncremental /\ since = now - Days(YearDays)

\* C8: the cursor written into the year snapshot is the time the run started.
C8_CursorIsRunStart == YearWritten => disk.year.lastFetchedAt = now

-----------------------------------------------------------------------------
(* Properties of derivePeriod *)

WithinWindow(file, days) ==
    file.status = "ok" =>
       \A i \in DOMAIN file.entries :
          \A j \in DOMAIN file.entries[i].activities :
             file.entries[i].activities[j].occured_at >= file.updatedAt - Days(days)

\* C9: every activity of every entry of the month snapshot is at most 30 days
\* older than the snapshot's generation time, and of the week snapshot 7 days.
C9_PeriodWindow ==
    /\ WithinWindow(disk.month, MonthDays)
    /\ WithinWindow(disk.week, WeekDays)

\* the year holds an activity too old for the month, the month one too old for
\* the week
C9_Witness ==
    /\ disk.month.status = "ok"
    /\ disk.week.status = "ok"
    /\ \E i \in DOMAIN disk.year.entries :
          \E j \in DOMAIN disk.year.entries[i].raw_activities :
             disk.year.entries[i].raw_activities[j].occured_at
                < disk.month.updatedAt - Days(MonthDays)
    /\ \E i \in DOMAIN disk.month.entries :
          \E j \in DOMAIN disk.month.entries[i].activities :
             disk.month.entries[i].activities[j].occured_at
                < disk.week.updatedAt - Days(WeekDays)

InWindow(log, file, days) ==
    SelectSeq(log, LAMBDA a : a.occured_at >= file.updatedAt - Days(days))

ProjectionOf(source, file, days) ==
    /\ \A i \in DOMAIN source.entries :
          (\E k \in DOMAIN file.entries :
              file.entries[k].username = source.entries[i].username)
          <=> (\E j \in DOMAIN source.entries[i].raw_activities :
                  source.entries[i].raw_activities[j].occured_at
                     >= file.updatedAt - Days(days))
    /\ \A k \in DOMAIN file.entries :
          LET e == file.entries[k]
          IN /\ \E i \in DOMAIN source.entries :
                   /\ source.entries[i].username = e.username
                   /\ e.activities = InWindow(source.entries[i].raw_activities, file, days)
             /\ e.total_points = SumPoints(e.activities)
             /\ SumCounts(e.activity_breakdown) = Len(e.activities)
             /\ SumPoints(e.activity_breakdown) = e.total_points
             /\ SumPoints(e.daily_activity) = e.total_points
    /\ \A k \in DOMAIN file.entries : \A l \in DOMAIN file.entries :
          k < l => file.entries[k].total_points >= file.entries[l].total_points

\* C10: a period snapshot holds exactly the contributors of the year snapshot
\* with an activity inside the window, each with totals folded from the
\* activities inside the window only, ordered by total_points, highest first.
C10_PeriodProjection ==
    /\ (pc \in {"month", "recent"} \/ (pc = "idle" /\ runs > 0)) =>
          ProjectionOf(yearData, disk.week, WeekDays)
    /\ (pc = "recent" \/ (pc = "idle" /\ runs > 0)) =>
          ProjectionOf(yearData, disk.month, MonthDays)

\* the month reorders two contributors of the year and leaves their older points out
C10_Witness ==
    /\ pc = "recent"
    /\ Len(disk.month.entries) >= 2
    /\ \E i, j \in DOMAIN yearData.entries :
          /\ i < j
          /\ \E k, l \in DOMAIN disk.month.entries :
                /\ k > l
                /\ disk.month.entries[k].username = yearData.entries[i].username
                /\ disk.month.entries[l].username = yearData.entries[j].username
                /\ disk.month.entries[k].total_points < yearData.entries[i].total_points

-----------------------------------------------------------------------------
(* Runs over a platform with automation accounts *)

\* automation accounts of several kinds beside bob: a GitHub App with the
\* "[bot]" suffix, accounts of type "User" named as bots, an App without a bot
\* name
BotUniverse ==
    { <<"pr", PullRequest("pb1", "11", "dependabot[bot]", "Bot", "T11", T0 - 1, NoTime)>>,
      <<"pr", PullRequest("pb2", "12", "ci-bot", "User", "T12", T0 - 1, NoTime)>>,
      <<"pr", PullRequest("pb3", "13", "bob", "User", "T13", T0 - 2, T0 - 1)>>,
      <<"review", Review("pb3", "deploy_bot", "User", "APPROVED", T0)>>,
      <<"issue", Issue("ib1", "14", "renovate", "User", "T14", T0 - 1)>>,
      <<"event", IssueEvent("ib1", "labeled", "octo-app", "Bot", T0, "bug", NULL)>> }

BotWorlds ==
    { [prs |-> Tagged(S, "pr"), reviews |-> Tagged(S, "review"),
       issues |-> Tagged(S, "issue"), events |-> Tagged(S, "event"),
       repos |-> OrgRepos, failing |-> {}] :
      S \in {X \in SUBSET BotUniverse : Cardinality(X) <= MaxItems} }

InitBots ==
    /\ clock = T0
    /\ world \in BotWorlds
    /\ disk \in {[NoDisk EXCEPT !.year = file] :
                   file \in {NoFile, YearFile(T0 - Days(1), History)}}
    /\ pc = "idle"
    /\ now = 0
    /\ since = 0
    /\ existing = NoFile
    /\ isIncremental = FALSE
    /\ users = <<>>
    /\ yearData = NoFile
    /\ runs = 0
    /\ input = <<>>
    /\ response = NoResponse
    /\ allRepos = <<>>
    /\ written = {}
    /\ requests = <<>>
    /\ batches = <<>>
    /\ inFlight = {}
    /\ reviewResults = {}
    /\ reviewSeen = {}

SpecBots == InitBots /\ [][Next]_vars

\* handles matching the bot-naming rules: suffix "[bot]", "-bot", "_bot", or a
\* known automation account
BotHandles == {"dependabot[bot]", "ci-bot", "deploy_bot", "renovate"}

\* accounts of the platform of a non-human type
NonHumanAccounts ==
    {x.login : x \in {y \in world.prs \cup world.reviews \cup world.issues
                               \cup world.events : y.type # "User"}}

Usernames(entries) == {entries[i].username : i \in DOMAIN entries}

RecentUsernames(groups) ==
    UNION {Usernames(groups[i].items) : i \in DOMAIN groups}

\* C11: no account of a non-human type or with a handle matching the bot-naming
\* rules is an entry of the year, month or week snapshot or an item of the
\* recent-activity feed.
C11_NoBotsInSnapshots ==
    LET persisted == Usernames(disk.year.entries) \cup Usernames(disk.week.entries)
                      \cup Usernames(disk.month.entries)
                      \cup RecentUsernames(disk.recent.groups)
    IN persisted \cap (BotHandles \cup NonHumanAccounts) = {}

\* The part of C11 the code keeps: accounts of a non-human type and handles
\* ending in "[bot]" are in no snapshot.
C11_NoTaggedBots ==
    LET persisted == Usernames(disk.year.entries) \cup Usernames(disk.week.entries)
                      \cup Usernames(disk.month.entries)
                      \cup RecentUsernames(disk.recent.groups)
    IN persisted \cap ({"dependabot[bot]"} \cup NonHumanAccounts) = {}

-----------------------------------------------------------------------------
(* Runs over a platform with reviews of every kind *)

ReviewedPRs ==
    { PullRequest("pv1", "21", "bob", "User", "T21", T0 - 2, NoTime),
      PullRequest("pv2", "22", "alice", "User", "T22", T0 - 2, NoTime) }

\* self-reviews, approvals, requests for changes, comments, a dismissed review,
\* two reviews of one reviewer on one pull request, reviews that arrive late
ReviewUniverse ==
    { Review("pv1", "bob", "User", "APPROVED", T0 - 1),
      Review("pv1", "alice", "User", "APPROVED", T0 - 1),
      Review("pv1", "alice", "User", "COMMENTED", T0),
      Review("pv1", "alice", "User", "CHANGES_REQUESTED", T0),
      Review("pv2", "alice", "User", "CHANGES_REQUESTED", T0),
      Review("pv2", "bob", "User", "DISMISSED", T0 - 1),
      Review("pv2", "bob", "User", "CHANGES_REQUESTED", T0 + 1),
      Review("pv1", "alice", "User", "APPROVED", T0 + 2) }

ReviewWorlds ==
    { [prs |-> ReviewedPRs, reviews |-> S, issues |-> {}, events |-> {},
       repos |-> OrgRepos, failing |-> {}] :
      S \in {X \in SUBSET ReviewUniverse : Cardinality(X) <= MaxItems} }

InitReviews ==
    /\ clock = T0
    /\ world \in ReviewWorlds
    /\ disk \in {[NoDisk EXCEPT !.year = file] :
                   file \in {NoFile, YearFile(T0 - Days(1), <<>>)}}
    /\ pc = "idle"
    /\ now = 0
    /\ since = 0
    /\ existing = NoFile
    /\ isIncremental = FALSE
    /\ users = <<>>
    /\ yearData = NoFile
    /\ runs = 0
    /\ input = <<>>
    /\ response = NoResponse
    /\ allRepos = <<>>
    /\ written = {}
    /\ requests = <<>>
    /\ batches = <<>>
    /\ inFlight = {}
    /\ reviewResults = {}
    /\ reviewSeen = {}

SpecReviews == InitReviews /\ [][Next]_vars

\* a "Review submitted" activity of a user stands for a review by that user, on
\* a pull request of somebody else, that approves or requests changes
ReviewActivityJustified(username, act) ==
    /\ act.points = 4
    /\ \E pr \in world.prs : \E r \in world.reviews :
          /\ r.pr = pr.html_url
          /\ act.link = pr.html_url
          /\ act.occured_at = r.submitted_at
          /\ r.login = username
          /\ r.login # pr.login
          /\ r.state \in {"APPROVED", "CHANGES_REQUESTED"}

ReviewsJustified(entries) ==
    \A i \in DOMAIN entries :
       \A j \in DOMAIN entries[i].raw_activities :
          entries[i].raw_activities[j].type = "Review submitted"
             => ReviewActivityJustified(entries[i].username,
                                        entries[i].raw_activities[j])

ReviewPoints(entries, username) ==
    IF \E i \in DOMAIN entries : entries[i].username = username
    THEN BreakdownOf(entries[CHOOSE i \in DOMAIN entries :
                                entries[i].username = username].activity_breakdown,
                     "Review submitted").points
    ELSE 0

\* users all of whose reviews are on their own pull requests
OnlySelfReviewers ==
    {u \in {"alice", "bob"} :
       \A r \in world.reviews : r.login = u =>
          \E pr \in world.prs : pr.html_url = r.pr /\ pr.login = u}

\* C12: a "Review submitted" activity carries 4 points and is recorded for a
\* reviewer only for a review that is not on the reviewer's own pull request and
\* whose state is APPROVED or CHANGES_REQUESTED; a user's reviews of their own
\* pull requests give that user 0 review points.
C12_ReviewsCounted ==
    /\ pc \in {"triage", "merge", "dedup", "writeYear"} =>
          /\ ReviewsJustified(users)
          /\ \A u \in OnlySelfReviewers : ReviewPoints(users, u) = 0
    /\ ReviewsJustified(disk.year.entries)
    /\ \A u \in OnlySelfReviewers : ReviewPoints(disk.year.entries, u) = 0

\* bob approved his own pull request, alice approved it too: alice alone is
\* credited
C12_Witness ==
    /\ pc = "triage"
    /\ Review("pv1", "bob", "User", "APPROVED", T0 - 1) \in world.reviews
    /\ since <= T0 - 1
    /\ ReviewPoints(users, "bob") = 0
    /\ ReviewPoints(users, "alice") = 4
    /\ Has(users, "bob")

-----------------------------------------------------------------------------
(* Runs over a platform with issue events of every kind *)

TriagedIssues == { Issue("it1", "31", "bob", "User", "T31", T0 - 2) }

\* labels in and out of the automated list, a label that contains a listed one,
\* assignments to oneself and to somebody else, closing by the author and by
\* somebody else
TriageUniverse ==
    { IssueEvent("it1", "labeled", "alice", "User", T0, "bug", NULL),
      IssueEvent("it1", "labeled", "alice", "User", T0, "docs", NULL),
      IssueEvent("it1", "labeled", "alice", "User", T0, "stale", NULL),
      IssueEvent("it1", "labeled", "alice", "User", T0, "ci-label", NULL),
      IssueEvent("it1", "labeled", "alice", "User", T0 - 1, "security-review", NULL),
      IssueEvent("it1", "labeled", "carol", "User", T0, "github_actions", NULL),
      IssueEvent("it1", "assigned", "alice", "User", T0, NULL, "alice"),
      IssueEvent("it1", "assigned", "alice", "User", T0 + 1, NULL, "carol"),
      IssueEvent("it1", "closed", "bob", "User", T0, NULL, NULL),
      IssueEvent("it1", "closed", "alice", "User", T0 + 1, NULL, NULL) }

TriageWorlds ==
    { [prs |-> {}, reviews |-> {}, issues |-> TriagedIssues, events |-> S,
       repos |-> OrgRepos, failing |-> {}] :
      S \in {X \in SUBSET TriageUniverse : Cardinality(X) <= MaxItems} }

InitTriage ==
    /\ clock = T0
    /\ world \in TriageWorlds
    /\ disk \in {[NoDisk EXCEPT !.year = file] :
                   file \in {NoFile, YearFile(T0 - Days(1), <<>>)}}
    /\ pc = "idle"
    /\ now = 0
    /\ since = 0
    /\ existing = NoFile
    /\ isIncremental = FALSE
    /\ users = <<>>
    /\ yearData = NoFile
    /\ runs = 0
    /\ input = <<>>
    /\ response = NoResponse
    /\ allRepos = <<>>
    /\ written = {}
    /\ requests = <<>>
    /\ batches = <<>>
    /\ inFlight = {}
    /\ reviewResults = {}
    /\ reviewSeen = {}

SpecTriage == InitTriage /\ [][Next]_vars

\* the automated-label denylist as the specification gives it
ListedAutomatedLabels ==
    {"stale", "wontfix", "duplicate", "invalid", "dependencies", "security",
     "ci-label"}

IssueOf(event) == CHOOSE i \in world.issues : i.html_url = event.issue

TriageType(event) ==
    CASE event.event = "labeled" -> "Issue labeled"
      [] event.event = "assigned" -> "Issue assigned"
      [] event.event = "closed" -> "Issue closed"

TriageTitle(event) ==
    CASE event.event = "labeled" ->
           "Labeled issue #" \o IssueOf(event).number \o " - " \o event.label
      [] event.event = "assigned" ->
           "Assigned issue #" \o IssueOf(event).number \o " to " \o event.assignee
      [] event.event = "closed" ->
           "Closed issue #" \o IssueOf(event).number \o " - " \o IssueOf(event).title

\* the run recorded an activity for the event
TriageRecorded(event) ==
    \E i \in DOMAIN users :
       /\ users[i].username = event.login
       /\ \E j \in DOMAIN users[i].raw_activities :
             LET act == users[i].raw_activities[j]
             IN /\ act.type = TriageType(event)
                /\ act.occured_at = event.created_at
                /\ act.link = event.issue
                /\ act.title = TriageTitle(event)
                /\ act.points = POINTS(TriageType(event))

\* the events the triage step of the run has fetched and that lie in its window
TriageFetched ==
    {e \in world.events :
       /\ since < now
       /\ e.created_at <= clock /\ since <= e.created_at /\ e.created_at <= now}

\* C13: a fetched issue event is scored unless it is excluded: a "labeled" event
\* is excluded exactly when its label is one of stale, wontfix, duplicate,
\* invalid, dependencies, security, ci-label; an "assigned" event when the actor
\* is the assignee; a "closed" event when the closer is the issue's author.
C13_TriageExclusions ==
    pc = "merge" =>
       \A e \in TriageFetched :
          TriageRecorded(e) <=>
             ~ \/ e.event = "labeled" /\ e.label \in ListedAutomatedLabels
               \/ e.event = "assigned" /\ e.login = e.assignee
               \/ e.event = "closed" /\ e.login = IssueOf(e).login

\* The exclusions as the code applies them: a label is excluded when it contains
\* one of stale, wontfix, duplicate, invalid, dependencies, security,
\* github_actions.
C13_TriageExclusionsContained ==
    pc = "merge" =>
       \A e \in TriageFetched :
          TriageRecorded(e) <=>
             ~ \/ e.event = "labeled" /\ isAutomatedLabel(e.label)
               \/ e.event = "assigned" /\ e.login = e.assignee
               \/ e.event = "closed" /\ e.login = IssueOf(e).login

-----------------------------------------------------------------------------
(* GET: the people directory merged from the snapshot files                *)
(* (src/unnamed/part_001).  The handler is synchronous: one action.        *)

DisplayCap == 15

\* new Date(0)
Epoch == 0

\* entry.activities ?? []
ActivitiesOf(entry) ==
    IF "activities" \in DOMAIN entry THEN entry.activities ELSE <<>>

\* username.toLowerCase() ends with "[bot]", "-bot", "_bot", is dependabot,
\* renovate or github-actions, or starts with "renovate[" or "dependabot[",
\* over the usernames of the model
isBot(username) ==
    ToLowerCase(username) \in {"dependabot[bot]", "ci-bot", "deploy_bot",
                               "dependabot", "renovate", "github-actions"}

\* activity.link ? `${type}-${link}` : `${type}-${title}-${occured_at}`
Identifier(activity) ==
    IF activity.link # NULL /\ activity.link # ""
    THEN activity.type \o "-" \o activity.link
    ELSE activity.type \o "-" \o Str(activity.title) \o "-"
            \o ToString(activity.occured_at)

\* the loop that pushes an activity unless its identifier was seen
RECURSIVE Combine(_, _)
Combine(activities, seen) ==
    IF activities = <<>> THEN <<>>
    ELSE LET activity == Head(activities)
             identifier == Identifier(activity)
         IN IF identifier \in seen
            THEN Combine(Tail(activities), seen)
            ELSE <<activity>> \o Combine(Tail(activities), seen \cup {identifier})

\* combined.sort((a, b) => time(b.occured_at) - time(a.occured_at))
SortByOccurrenceDescending(activities) ==
    LET sorted == SortDescending([i \in DOMAIN activities |->
                                    <<activities[i].occured_at, activities[i]>>])
    IN [i \in DOMAIN sorted |-> sorted[i][2]]

CountOfType(activities, type) ==
    Len(SelectSeq(activities, LAMBDA a : a.type = type))

Placeholder(type, info) ==
    [type |-> type, title |-> type \o " contribution", occured_at |-> Epoch,
     link |-> "", points |-> info.points]

\* for (const [type, info] of Object.entries(entry.activity_breakdown))
RECURSIVE AddPlaceholders(_, _)
AddPlaceholders(combined, breakdown) ==
    IF breakdown = <<>> THEN combined
    ELSE LET info == Head(breakdown)
             existingCount == CountOfType(combined, info.label)
             missing == info.count - existingCount
         IN AddPlaceholders(
              combined \o [i \in 1..missing |-> Placeholder(info.label, info)],
              Tail(breakdown))

\* s.slice(0, n)
Slice(s, n) == SubSeq(s, 1, IF Len(s) < n THEN Len(s) ELSE n)

\* {...existing, ...entry, activities}
Spread(known, entry, activities) ==
    [f \in DOMAIN known \cup DOMAIN entry \cup {"activities"} |->
        IF f = "activities" THEN activities
        ELSE IF f \in DOMAIN entry THEN entry[f]
        ELSE known[f]]

\* the second and later sights of a username (known: the entry the map holds,
\* `existing` in the source)
MergeEntry(known, entry) ==
    LET combined == SortByOccurrenceDescending(
                      Combine(ActivitiesOf(known) \o ActivitiesOf(entry), {}))
        expectedCount == SumCounts(entry.activity_breakdown)
        padded == IF Len(combined) < expectedCount
                  THEN AddPlaceholders(combined, entry.activity_breakdown)
                  ELSE combined
    IN Spread(known, entry, Slice(padded, DisplayCap))

\* for (const entry of data.entries || [])
RECURSIVE MergeEntries(_, _)
MergeEntries(allContributors, entries) ==
    IF entries = <<>> THEN allContributors
    ELSE LET entry == Head(entries)
         IN MergeEntries(
              IF isBot(entry.username) THEN allContributors
              ELSE IF ~Has(allContributors, entry.username)
              THEN Append(allContributors,
                          Spread(entry, entry, ActivitiesOf(entry)))
              ELSE [allContributors EXCEPT
                      ![IndexOf(allContributors, entry.username)] =
                          MergeEntry(@, entry)],
              Tail(entries))

\* for (const file of files): a file that does not parse is logged and skipped
RECURSIVE ReadFiles(_, _)
ReadFiles(acc, files) ==
    IF files = <<>> THEN acc
    ELSE LET data == Head(files)
         IN ReadFiles(
              IF data.status # "ok" THEN acc
              ELSE [allContributors |-> MergeEntries(acc.allContributors, data.entries),
                    latestUpdatedAt |-> IF data.updatedAt > acc.latestUpdatedAt
                                        THEN data.updatedAt
                                        ELSE acc.latestUpdatedAt],
              Tail(files))

\* input: the *.json files of public/leaderboard other than
\* recent-activities.json, in the order readdirSync lists them
GET ==
    /\ pc = "get"
    /\ LET read == ReadFiles([allContributors |-> <<>>, latestUpdatedAt |-> 0], input)
       IN response' = [status |-> 200, updatedAt |-> read.latestUpdatedAt,
                       people |-> SortByTotalDescending(read.allContributors)]
    /\ pc' = "served"
    /\ UNCHANGED <<clock, world, disk, now, since, existing, isIncremental, users,
                   yearData, runs, input, allRepos, written, onTheirOwn>>

-----------------------------------------------------------------------------
(* The directories GET reads: the year, month and week files of one run of *)
(* the generator, all or some of them, in any listing order, year.json     *)
(* readable or not                                                         *)

\* n pull requests opened one after the other, the oldest first
LongLog(n, from) ==
    [i \in 1..n |-> RawActivity("PR opened", from + i, "T", "pr" \o ToString(i), 2)]

\* logs with activities of the last week, of the last month and older ones,
\* with more activities than the display cap, and with two activities of one
\* type on one link
PeopleLogs ==
    { << RawActivity("Issue opened", T0 - 1, "T1", "i1", 1),
         RawActivity("Issue opened", T0 - Days(MonthDays + 10), "T2", "i2", 1),
         RawActivity("Issue opened", T0 - Days(MonthDays + 9), "T3", "i3", 1) >>,
      LongLog(DisplayCap + 1, T0 - Days(MonthDays - 10)),
      LongLog(DisplayCap - 1, T0 - Days(MonthDays - 10))
         \o << RawActivity("Issue opened", T0 - Days(MonthDays + 10), "T2", "i2", 1),
               RawActivity("Issue opened", T0 - Days(MonthDays + 9), "T3", "i3", 1) >>,
      << RawActivity("Issue labeled", T0 - 2, "Labeled issue #7 - a", "i7", 2),
         RawActivity("Issue labeled", T0 - 1, "Labeled issue #7 - b", "i7", 2),
         RawActivity("PR opened", T0 - Days(WeekDays + 3), "T4", "pr4", 2) >>,
      << RawActivity("PR opened", T0 - 1, "T5", "pr5", 2) >> }

PeopleContributors ==
    LET first == {FreshContributor("alice", log) : log \in PeopleLogs}
        second == { FreshContributor("bob",
                      <<RawActivity("PR opened", T0 - Days(WeekDays + 3), "T6", "pr6", 2)>>),
                    FreshContributor("ci-bot",
                      <<RawActivity("PR opened", T0 - 1, "T7", "pr7", 2)>>) }
    IN {<<a>> : a \in first} \cup {<<a, b>> : a \in first, b \in second}

\* year.json, month.json and week.json as generateYear writes them
SnapshotsOf(contributors) ==
    LET year == YearFile(clock, YearEntries(deduplicateAndRecalculate(contributors)))
    IN [year |-> year,
        month |-> derivePeriod(year, MonthDays, "month"),
        week |-> derivePeriod(year, WeekDays, "week")]

\* the listings of one directory: one, two or three of its files, in any order
ListingsOf(files) ==
    LET names == DOMAIN files
        orders == {o \in names \X names \X names : o[1] # o[2] /\ o[2] # o[3] /\ o[1] # o[3]}
    IN {<<files[o[1]]>> : o \in orders}
          \cup {<<files[o[1]], files[o[2]]>> : o \in orders}
          \cup {<<files[o[1]], files[o[2]], files[o[3]]>> : o \in orders}

Listings ==
    UNION { ListingsOf(SnapshotsOf(c)) \cup
            ListingsOf([SnapshotsOf(c) EXCEPT !.year = CorruptFile]) :
            c \in PeopleContributors }

InitPeople ==
    /\ clock = T0
    /\ input \in Listings
    /\ response = NoResponse
    /\ allRepos = <<>>
    /\ written = {}
    /\ requests = <<>>
    /\ batches = <<>>
    /\ inFlight = {}
    /\ reviewResults = {}
    /\ reviewSeen = {}
    /\ pc = "get"
    /\ world = NoWorld
    /\ disk = NoDisk
    /\ now = 0
    /\ since = 0
    /\ existing = NoFile
    /\ isIncremental = FALSE
    /\ users = <<>>
    /\ yearData = NoFile
    /\ runs = 0

NextPeople == GET

SpecPeople == InitPeople /\ [][NextPeople]_vars

-----------------------------------------------------------------------------
(* Properties of GET *)

\* the readable files of the listing, in listing order
ReadableFiles == SelectSeq(input, LAMBDA f : f.status = "ok")

EntryOf(file, username) ==
    file.entries[CHOOSE i \in DOMAIN file.entries : file.entries[i].username = username]

\* the places in the listing of the readable files with an entry of username
FilesWith(username) ==
    {k \in DOMAIN ReadableFiles :
       \E i \in DOMAIN ReadableFiles[k].entries :
          ReadableFiles[k].entries[i].username = username}

Least(S) == CHOOSE x \in S : \A y \in S : x <= y

IsPlaceholder(activity) == activity.link = "" /\ activity.occured_at = Epoch

Placeholders(activities, type) ==
    Len(SelectSeq(activities, LAMBDA a : a.type = type /\ IsPlaceholder(a)))

RealActivities(activities, type) ==
    Len(SelectSeq(activities, LAMBDA a : a.type = type /\ ~IsPlaceholder(a)))

\* the distinct activities of username over the readable files
Unioned(username) ==
    UNION {{Identifier(a) : a \in Range(ActivitiesOf(EntryOf(ReadableFiles[k], username)))} :
             k \in FilesWith(username)}

Served == pc = "served"

\* C14: in the served entry of a contributor merged from several files, a type
\* whose declared count exceeds the number of real activities retained of that
\* type has exactly declared count minus retained count placeholders, each with
\* empty link and epoch timestamp (declared 3, retained 1: 2 placeholders).
C14_PlaceholdersFillTypes ==
    Served =>
       \A n \in DOMAIN response.people :
          LET person == response.people[n]
          IN Cardinality(FilesWith(person.username)) >= 2 =>
                \A k \in DOMAIN person.activity_breakdown :
                   LET info == person.activity_breakdown[k]
                       retained == RealActivities(person.activities, info.label)
                   IN retained < info.count =>
                         Placeholders(person.activities, info.label)
                            = info.count - retained

\* the example of C14: three issues opened in the year, one of them in the
\* month: the served entry has the real one and two placeholders
C14_Example ==
    /\ Served
    /\ \E n \in DOMAIN response.people :
          LET person == response.people[n]
          IN /\ Cardinality(FilesWith(person.username)) >= 2
             /\ person.activity_breakdown =
                   <<[label |-> "Issue opened", count |-> 3, points |-> 3]>>
             /\ RealActivities(person.activities, "Issue opened") = 1
             /\ Placeholders(person.activities, "Issue opened") = 2
             /\ Len(person.activities) = 3

\* C15: when the unioned activities of a contributor merged from several files
\* are fewer than the total count its activity_breakdown declares, the served
\* activity list has exactly as many items as the declared total.
C15_VisibleCountIsDeclared ==
    Served =>
       \A n \in DOMAIN response.people :
          LET person == response.people[n]
              declared == SumCounts(person.activity_breakdown)
          IN ( /\ Cardinality(FilesWith(person.username)) >= 2
               /\ Cardinality(Unioned(person.username)) < declared )
             => Len(person.activities) = declared

\* C16: every served person's activity list is sorted by occurrence time,
\* latest first, and has at most 15 items, in however many files the person
\* appears.
C16_SortedAndCapped ==
    Served =>
       \A n \in DOMAIN response.people :
          LET activities == response.people[n].activities
          IN /\ Len(activities) <= 15
             /\ \A i, j \in DOMAIN activities :
                   i < j => activities[i].occured_at >= activities[j].occured_at

\* The part of C16 the code keeps: the list of a person merged from several
\* files is sorted and capped.
C16_MergedSortedAndCapped ==
    Served =>
       \A n \in DOMAIN response.people :
          LET activities == response.people[n].activities
          IN Cardinality(FilesWith(response.people[n].username)) >= 2 =>
                /\ Len(activities) <= 15
                /\ \A i, j \in DOMAIN activities :
                      i < j => activities[i].occured_at >= activities[j].occured_at

BaseFieldsOf(person, entry) ==
    /\ person.role = entry.role
    /\ person.total_points = entry.total_points
    /\ person.activity_breakdown = entry.activity_breakdown
    /\ person.daily_activity = entry.daily_activity

\* C17: the base fields (role, total_points, activity_breakdown,
\* daily_activity) of a served entry are those of the first file in which the
\* username was seen.
C17_FirstFileWins ==
    Served =>
       \A n \in DOMAIN response.people :
          LET person == response.people[n]
              first == Least(FilesWith(person.username))
          IN BaseFieldsOf(person, EntryOf(ReadableFiles[first], person.username))

\* What the code does instead: the base fields are those of the last file in
\* which the username was seen.
C17_LastFileWins ==
    Served =>
       \A n \in DOMAIN response.people :
          LET person == response.people[n]
              last == Max(FilesWith(person.username))
          IN BaseFieldsOf(person, EntryOf(ReadableFiles[last], person.username))

-----------------------------------------------------------------------------
(* Runs while the platform or the file system refuses a request *)

\* two pull requests in r1 and one in r2, each reviewed, and a labeled issue
FailureUniverse ==
    [prs |-> { PullRequest("pf1", "41", "bob", "User", "T41", T0 - 1, NoTime),
               PullRequest("pf3", "43", "carol", "User", "T43", T0 - 2, NoTime),
               PullRequest("pf2", "42", "alice", "User", "T42", T0 - 2, NoTime) },
     reviews |-> { Review("pf1", "alice", "User", "APPROVED", T0 - 1),
                   Review("pf3", "alice", "User", "APPROVED", T0 - 2),
                   Review("pf2", "bob", "User", "CHANGES_REQUESTED", T0 - 1) },
     issues |-> { Issue("if1", "51", "bob", "User", "T51", T0 - 2) },
     events |-> { IssueEvent("if1", "labeled", "alice", "User", T0 - 1, "bug", NULL) },
     repos |-> OrgRepos,
     failing |-> {}]

\* what can be refused: a search query, a page of the repository listing, a
\* page of a repository's pull requests, the reviews of a pull request, the
\* events of an issue, the write of a file
Faults ==
    {<<"search", q>> : q \in {"is:pr", "is:pr+is:merged", "is:issue", "is:issue updated"}}
      \cup {<<"repos", p>> : p \in 1..2}
      \cup {<<"pulls", p>> : p \in 1..2}
      \cup {<<"reviews", "41">>, <<"events", "51">>}
      \cup {<<"write", f>> : f \in {"year", "week", "month", "recent"}}

FailureWorlds ==
    {[FailureUniverse EXCEPT !.failing = F] : F \in {{}} \cup {{f} : f \in Faults}}

InitFailures ==
    /\ clock = T0
    /\ world \in FailureWorlds
    /\ disk \in {[NoDisk EXCEPT !.year = file] :
                   file \in {NoFile, YearFile(T0 - Days(1), History)}}
    /\ pc = "idle"
    /\ now = 0
    /\ since = 0
    /\ existing = NoFile
    /\ isIncremental = FALSE
    /\ users = <<>>
    /\ yearData = NoFile
    /\ runs = 0
    /\ input = <<>>
    /\ response = NoResponse
    /\ allRepos = <<>>
    /\ written = {}
    /\ requests = <<>>
    /\ batches = <<>>
    /\ inFlight = {}
    /\ reviewResults = {}
    /\ reviewSeen = {}

SpecFailures == InitFailures /\ [][Next]_vars

\* the requests of the fetch phase that are refused
FetchFaults == {f \in world.failing : f[1] # "write"}

\* C18: a non-2xx response on a search page, a repository's page of pull
\* requests, a pull request's reviews or an issue's events never aborts the run.
C18_FetchFailuresNeverAbort ==
    (world.failing = FetchFaults) => pc # "aborted"

\* The part of C18 the code keeps: a refused page of pull requests, a refused
\* list of reviews and a refused list of events do not abort the run.
C18_DetailFailuresNeverAbort ==
    (\A f \in world.failing : f[1] \in {"pulls", "reviews", "events"})
        => pc # "aborted"

\* With the second page of pull requests refused, the review on the pull
\* request of the first page is persisted.
C18_PartialDataPersisted ==
    /\ world.failing = {<<"pulls", 2>>}
    /\ "year" \in written
    /\ \E i \in DOMAIN disk.year.entries :
         \E k \in DOMAIN disk.year.entries[i].raw_activities :
            LET act == disk.year.entries[i].raw_activities[k]
            IN act.type = "Review submitted" /\ act.link = "pf1"
    /\ \A i \in DOMAIN disk.year.entries :
         \A k \in DOMAIN disk.year.entries[i].raw_activities :
            disk.year.entries[i].raw_activities[k].link # "pf3"
               \/ disk.year.entries[i].raw_activities[k].type # "Review submitted"

\* the pages of the repository listing that are refused
RefusedRepoPages ==
    {p \in 1..(Len(world.repos) + 1) : <<"repos", p>> \in world.failing}

\* the names on the pages that precede the first refused page
ReposBeforeFailure ==
    IF RefusedRepoPages = {} THEN world.repos
    ELSE LET collected == (Least(RefusedRepoPages) - 1) * PerPage
         IN SubSeq(world.repos, 1,
                   IF collected < Len(world.repos) THEN collected ELSE Len(world.repos))

\* C19: when a page of the organization's repository listing is refused,
\* fetchOrgRepos returns exactly the names of the pages before it, the run goes
\* on to the triage step, and a run whose only refusals are of that listing is
\* never aborted.
C19_ReposBeforeFailure ==
    /\ [][pc = "reviews" /\ pc' # "reviews"
            => allRepos' = ReposBeforeFailure /\ pc' = "triage"]_vars
    /\ []((\A f \in world.failing : f[1] = "repos") => pc # "aborted")

\* The second page is refused and the names of the first page are kept.
C19_Witness ==
    /\ world.failing = {<<"repos", 2>>}
    /\ pc = "triage"
    /\ allRepos = SubSeq(world.repos, 1, PerPage)
    /\ Len(allRepos) < Len(world.repos)

\* C20: a run that ends in the top-level failure handler has written none of
\* year.json, week.json, month.json and recent-activities.json.
C20_FailedRunWritesNothing ==
    pc = "aborted" => written = {}

\* The part of C20 the code keeps: a run that fails while it fetches has
\* written nothing and leaves the files as they were.
C20_FetchFailureWritesNothing ==
    (pc = "aborted" /\ world.failing = FetchFaults)
        => /\ written = {}
           /\ disk.year \in {NoFile, YearFile(T0 - Days(1), History)} \/ runs > 1
           /\ runs = 1 => disk.week = NoFile /\ disk.month = NoFile
                             /\ disk.recent = NoRecent

\* A run fails at the write of week.json after it has replaced year.json.
C20_YearWrittenThenAborted ==
    /\ pc = "aborted"
    /\ world.failing = {<<"write", "week">>}
    /\ written = {"year"}
    /\ disk.year = yearData
    /\ disk.year.lastFetchedAt >= now

-----------------------------------------------------------------------------
(* Order of the writes of a run *)

\* positions of a run before its first write
BeforeWrites ==
    {"prsOpened", "prsMerged", "issuesOpened", "reviews", "triage", "merge", "dedup"}

\* positions of a run at which the next step writes a file
AtWrite == {"writeYear", "week", "month", "recent"}

\* C21: no step of a run before the end of fetching, merging and recomputation
\* changes a file, whether the step succeeds or fails, and a step that writes
\* writes one file the run has not written before.
C21_WritesAfterRecompute ==
    /\ [][(pc \in BeforeWrites) => (disk' = disk /\ written' = written)]_vars
    /\ [][(pc \in AtWrite /\ pc' \notin {pc, "aborted"})
            => \E f \in {"year", "week", "month", "recent"} \ written :
                  /\ written' = written \cup {f}
                  /\ \A g \in {"year", "week", "month", "recent"} \ {f} :
                        (disk'[g] = disk[g])]_vars

\* A run of an incremental update failed while fetching and the year.json of
\* the earlier run is as it was.
C21_Witness ==
    /\ pc = "aborted"
    /\ world.failing = {<<"search", "is:issue updated">>}
    /\ runs = 1
    /\ users # <<>>
    /\ written = {}
    /\ requests = <<>>
    /\ batches = <<>>
    /\ inFlight = {}
    /\ reviewResults = {}
    /\ reviewSeen = {}
    /\ disk = [NoDisk EXCEPT !.year = YearFile(T0 - Days(1), History)]

-----------------------------------------------------------------------------
(* The batched fan-outs of fetchAllReviews and fetchIssueTriagingActivities,
   request by request *)

\* const BATCH_SIZE = 5 of fetchAllReviews
BATCH_SIZE == 5

\* two reviewed pull requests and three issues with triage events
FanOutItems ==
    [prs |-> { PullRequest("pq1", "61", "bob", "User", "T61", T0 - 2, NoTime),
               PullRequest("pq2", "62", "alice", "User", "T62", T0 - 3, NoTime) },
     issues |-> { Issue("iq1", "71", "bob", "User", "T71", T0 - 4),
                  Issue("iq2", "72", "carol", "User", "T72", T0 - 5),
                  Issue("iq3", "73", "bob", "User", "T73", T0 - 6) }]

FanOutReviews ==
    { Review("pq1", "alice", "User", "APPROVED", T0 - 1),
      Review("pq1", "alice", "User", "APPROVED", T0 - 2),
      Review("pq2", "bob", "User", "CHANGES_REQUESTED", T0 - 1),
      Review("pq2", "carol", "User", "APPROVED", T0 - 2) }

FanOutEvents ==
    { IssueEvent("iq1", "labeled", "alice", "User", T0 - 1, "bug", NULL),
      IssueEvent("iq2", "closed", "alice", "User", T0 - 2, NULL, NULL),
      IssueEvent("iq2", "labeled", "bob", "User", T0 - 1, "bug", NULL),
      IssueEvent("iq3", "assigned", "carol", "User", T0 - 1, NULL, "bob") }

\* one pull request more than a batch holds in the first repository, and one in
\* the second
ManyPulls ==
    { PullRequest("pm1", "81", "bob", "User", "T81", T0 - 1, NoTime),
      PullRequest("pm2", "82", "bob", "User", "T82", T0 - 2, NoTime),
      PullRequest("pm3", "83", "bob", "User", "T83", T0 - 3, NoTime),
      PullRequest("pm4", "84", "bob", "User", "T84", T0 - 4, NoTime),
      PullRequest("pm5", "85", "bob", "User", "T85", T0 - 5, NoTime),
      PullRequest("pm6", "86", "bob", "User", "T86", T0 - 6, NoTime),
      PullRequest("pf2", "87", "alice", "User", "T87", T0 - 2, NoTime) }

ManyPullsReviews ==
    { Review("pm1", "alice", "User", "APPROVED", T0 - 1),
      Review("pm6", "carol", "User", "APPROVED", T0 - 2),
      Review("pf2", "bob", "User", "CHANGES_REQUESTED", T0 - 1) }

FanOutWorlds ==
    { [prs |-> FanOutItems.prs, reviews |-> R, issues |-> FanOutItems.issues,
       events |-> E, repos |-> OrgRepos, failing |-> {}] :
      R \in {X \in SUBSET FanOutReviews : Cardinality(X) >= 3},
      E \in {X \in SUBSET FanOutEvents : Cardinality(X) >= 3} }
    \cup
    { [prs |-> ManyPulls, reviews |-> R, issues |-> {}, events |-> {},
       repos |-> OrgRepos, failing |-> {}] :
      R \in {X \in SUBSET ManyPullsReviews : Cardinality(X) >= 2} }

\* the batches of pull requests of all repositories, in the order of the loops
RECURSIVE ReviewBatches(_, _)
ReviewBatches(repos, sinceDate) ==
    IF repos = <<>> THEN <<>>
    ELSE chunk(fetchRepoPRs(Head(repos), sinceDate), BATCH_SIZE)
           \o ReviewBatches(Tail(repos), sinceDate)

\* reviewSeen after the loop over the results
RECURSIVE SeenAfter(_, _, _, _)
SeenAfter(seen, results, sinceDate, nowDate) ==
    IF results = <<>> THEN seen
    ELSE LET pr == Head(results)[1]
             review == Head(results)[2]
         IN SeenAfter(IF ReviewCounts(pr, review, sinceDate, nowDate, seen)
                      THEN seen \cup {<<review.login, RepoOf(pr.html_url), pr.number>>}
                      ELSE seen,
                      Tail(results), sinceDate, nowDate)

\* reviewResults of a joined batch, flattened in the order of the batch
RECURSIVE JoinedResults(_, _, _)
JoinedResults(batch, resolved, k) ==
    IF k > Len(batch) THEN <<>>
    ELSE LET reviews == (CHOOSE r \in resolved : r[1] = k)[2]
         IN [i \in DOMAIN reviews |-> <<batch[k], reviews[i]>>]
              \o JoinedResults(batch, resolved, k + 1)

InitFanOut ==
    /\ clock = T0
    /\ world \in FanOutWorlds
    /\ disk = NoDisk
    /\ pc = "fanOut"
    /\ now = T0
    /\ since = T0 - Days(WeekDays)
    /\ existing = NoFile
    /\ isIncremental = FALSE
    /\ users = <<>>
    /\ yearData = NoFile
    /\ runs = 0
    /\ input = <<>>
    /\ response = NoResponse
    /\ allRepos = <<>>
    /\ written = {}
    /\ requests = <<>>
    /\ batches = <<>>
    /\ inFlight = {}
    /\ reviewResults = {}
    /\ reviewSeen = {}

\* fetchAllReviews up to the loop over the batches
StartReviews ==
    /\ pc = "fanOut"
    /\ allRepos' = fetchOrgRepos
    /\ batches' = ReviewBatches(allRepos', since)
    /\ reviewSeen' = {}
    /\ pc' = IF batches' = <<>> THEN "triageSearch" ELSE "reviewBatch"
    /\ UNCHANGED <<clock, world, disk, now, since, existing, isIncremental, users,
                   yearData, runs, input, response, written, requests, inFlight,
                   reviewResults>>

\* batch.map(pr => fetchPRReviews(repoName, pr.number)...): the requests are sent
SendReviewBatch ==
    /\ pc = "reviewBatch"
    /\ inFlight' = DOMAIN Head(batches)
    /\ reviewResults' = {}
    /\ pc' = "reviewAwait"
    /\ UNCHANGED <<clock, world, disk, now, since, existing, isIncremental, users,
                   yearData, runs, input, response, allRepos, written, requests,
                   batches, reviewSeen>>

\* one fetchPRReviews of the batch resolves to { pr, reviews }
ReviewsArrive ==
    /\ pc = "reviewAwait"
    /\ \E k \in inFlight :
          /\ reviewResults' = reviewResults \cup {<<k, fetchPRReviews(Head(batches)[k])>>}
          /\ inFlight' = inFlight \ {k}
    /\ UNCHANGED <<clock, world, disk, pc, now, since, existing, isIncremental, users,
                   yearData, runs, input, response, allRepos, written, requests,
                   batches, reviewSeen>>

\* Promise.all has resolved: for (const { pr, reviews } of reviewResults) ...
JoinReviewBatch ==
    /\ pc = "reviewAwait"
    /\ inFlight = {}
    /\ LET results == JoinedResults(Head(batches), reviewResults, 1)
       IN /\ users' = RecordReviews(users, reviewSeen, results, since, now)
          /\ reviewSeen' = SeenAfter(reviewSeen, results, since, now)
    /\ batches' = Tail(batches)
    /\ reviewResults' = {}
    /\ pc' = "reviewSleep"
    /\ UNCHANGED <<clock, world, disk, now, since, existing, isIncremental,
                   yearData, runs, input, response, allRepos, written, requests,
                   inFlight>>

\* await sleep(300) at the end of the loop body, then the next batch, or the
\* next repository's batches, or the end of fetchAllReviews
ReviewDelay ==
    /\ pc = "reviewSleep"
    /\ pc' = IF batches = <<>> THEN "triageSearch" ELSE "reviewBatch"
    /\ UNCHANGED <<clock, world, disk, now, since, existing, isIncremental, users,
                   yearData, runs, input, response, allRepos, written, requests,
                   batches, inFlight, reviewResults, reviewSeen>>

\* fetchIssueTriagingActivities up to the loop over the batches
StartTriage ==
    /\ pc = "triageSearch"
    /\ batches' = chunk(updatedIssues(since, now), batchSize)
    /\ pc' = IF batches' = <<>> THEN "fanOutDone" ELSE "triageBatch"
    /\ UNCHANGED <<clock, world, disk, now, since, existing, isIncremental, users,
                   yearData, runs, input, response, allRepos, written, requests,
                   inFlight, reviewResults, reviewSeen>>

\* batch.map(issue => processIssueTriagingEvents(users, issue, since, now)): each
\* call runs to its fetch of the issue's events
SendTriageBatch ==
    /\ pc = "triageBatch"
    /\ inFlight' = DOMAIN Head(batches)
    /\ pc' = "triageAwait"
    /\ UNCHANGED <<clock, world, disk, now, since, existing, isIncremental, users,
                   yearData, runs, input, response, allRepos, written, requests,
                   batches, reviewResults, reviewSeen>>

\* the events of one issue arrive and its call of processIssueTriagingEvents
\* runs to its end
EventsArrive ==
    /\ pc = "triageAwait"
    /\ \E k \in inFlight :
          /\ users' = processIssueTriagingEvents(users, Head(batches)[k], since, now)
          /\ inFlight' = inFlight \ {k}
    /\ UNCHANGED <<clock, world, disk, pc, now, since, existing, isIncremental,
                   yearData, runs, input, response, allRepos, written, requests,
                   batches, reviewResults, reviewSeen>>

\* Promise.all has resolved; the next batch follows
JoinTriageBatch ==
    /\ pc = "triageAwait"
    /\ inFlight = {}
    /\ batches' = Tail(batches)
    /\ pc' = IF batches' = <<>> THEN "fanOutDone" ELSE "triageBatch"
    /\ UNCHANGED <<clock, world, disk, now, since, existing, isIncremental, users,
                   yearData, runs, input, response, allRepos, written, requests,
                   inFlight, reviewResults, reviewSeen>>

NextFanOut ==
    \/ StartReviews
    \/ SendReviewBatch
    \/ ReviewsArrive
    \/ JoinReviewBatch
    \/ ReviewDelay
    \/ StartTriage
    \/ SendTriageBatch
    \/ EventsArrive
    \/ JoinTriageBatch

SpecFanOut == InitFanOut /\ [][NextFanOut]_vars

\* The request-by-request fan-outs give what the steps of a run give: the
\* reviews as fetchAllReviews records them, the triage events as
\* fetchIssueTriagingActivities records them for one of the completion orders.
FanOutAgrees ==
    LET reviewed == fetchAllReviews(<<>>, allRepos, since, now)
    IN /\ pc \in {"triageSearch", "triageBatch"} => users = reviewed
       /\ pc = "fanOutDone" =>
            \E order \in CompletionOrders(chunk(updatedIssues(since, now), batchSize)) :
               users = fetchIssueTriagingActivities(reviewed, order, since, now)

\* the positions of fetchAllReviews inside the loop over the batches
InReviewBatches == {"reviewBatch", "reviewAwait", "reviewSleep"}

\* C31: in fetchAllReviews at most BATCH_SIZE requests for reviews are in flight;
\* requests are issued only at the head of the loop over the batches, with none
\* in flight and no result waiting to be applied; that position is reached only
\* from the start of fetchAllReviews or from the delay after a batch; and the
\* delay is reached only by applying the results of a batch all of whose
\* requests have completed.
C31_BatchesInTurn ==
    /\ [](pc \in InReviewBatches => Cardinality(inFlight) <= BATCH_SIZE)
    /\ [][(pc \in InReviewBatches /\ inFlight' \ inFlight # {})
            => (pc = "reviewBatch" /\ inFlight = {} /\ reviewResults = {})]_vars
    /\ [][(pc' = "reviewBatch" /\ pc # "reviewBatch")
            => pc \in {"fanOut", "reviewSleep"}]_vars
    /\ [][(pc' = "reviewSleep" /\ pc # "reviewSleep")
            => /\ pc = "reviewAwait"
               /\ inFlight = {}
               /\ {r[1] : r \in reviewResults} = DOMAIN Head(batches)
               /\ users' = RecordReviews(users, reviewSeen,
                                         JoinedResults(Head(batches), reviewResults, 1),
                                         since, now)]_vars

\* C31, its case: the first batch was a full one, its reviews are recorded, and
\* the requests of a later batch are in flight.
C31_Witness ==
    /\ pc = "reviewAwait"
    /\ inFlight # {}
    /\ Len(ReviewBatches(allRepos, since)[1]) = BATCH_SIZE
    /\ Len(batches) < Len(ReviewBatches(allRepos, since))
    /\ users # <<>>

\* C22: in the fan-outs of detail requests the map of contributors does not
\* change in a step that leaves a request of the current batch in flight.
C22_JoinedBeforeMutation ==
    [][(inFlight' # {}) => users' = users]_vars

\* The part of C22 the code keeps: the reviews of a batch are applied to the
\* map only when no request of the batch is in flight.
C22_ReviewsJoinedBeforeMutation ==
    [][(pc \in {"reviewBatch", "reviewAwait"} /\ users' # users)
          => (inFlight = {} /\ inFlight' = {})]_vars

\* The events of one issue have been applied to the map while the events of
\* another issue of the batch are still awaited.
C22_MutatedInFlight ==
    /\ pc = "triageAwait"
    /\ inFlight # {}
    /\ users # fetchAllReviews(<<>>, allRepos, since, now)

-----------------------------------------------------------------------------
(* Runs over issues whose events can arrive in any order *)

OrderWorlds ==
    { [prs |-> {}, reviews |-> {}, issues |-> FanOutItems.issues, events |-> E,
       repos |-> OrgRepos, failing |-> {}] :
      E \in {X \in SUBSET FanOutEvents : Cardinality(X) >= 3} }

InitOrders ==
    /\ clock = T0
    /\ world \in OrderWorlds
    /\ disk \in {[NoDisk EXCEPT !.year = file] :
                   file \in {NoFile, YearFile(T0 - Days(1), History)}}
    /\ pc = "idle"
    /\ now = 0
    /\ since = 0
    /\ existing = NoFile
    /\ isIncremental = FALSE
    /\ users = <<>>
    /\ yearData = NoFile
    /\ runs = 0
    /\ input = <<>>
    /\ response = NoResponse
    /\ allRepos = <<>>
    /\ written = {}
    /\ requests = <<>>
    /\ batches = <<>>
    /\ inFlight = {}
    /\ reviewResults = {}
    /\ reviewSeen = {}

SpecOrders == InitOrders /\ [][Next]_vars

\* the contributors the fetch phase of the run creates when the calls of
\* processIssueTriagingEvents complete in the order `order`
FetchedIn(order) ==
    LET opened == RecordSearchItems(
                    <<>>, searchByDateChunks("is:pr", since, now, StepDays),
                    "PR opened")
        merged == RecordSearchItems(
                    opened,
                    searchByDateChunks("is:pr+is:merged", since, now, StepDays),
                    "PR merged")
        issues == RecordSearchItems(
                    merged, searchByDateChunks("is:issue", since, now, StepDays),
                    "Issue opened")
        reviewed == fetchAllReviews(issues, allRepos, since, now)
    IN fetchIssueTriagingActivities(reviewed, order, since, now)

\* the fetch phase when every batch completes in the order of its issues
InOrderFetched == FetchedIn(updatedIssues(since, now))

\* the contributors of the run after merge and recomputation
RecomputedFrom(fetched) ==
    deduplicateAndRecalculate(
      IF isIncremental THEN mergeExistingActivities(fetched, existing.entries)
      ELSE fetched)

InOrderUsers == RecomputedFrom(InOrderFetched)

\* total_points, activity_breakdown (an object keyed by type) and
\* daily_activity of every contributor
Aggregates(entries) ==
    { [username |-> entries[i].username,
       total_points |-> entries[i].total_points,
       activity_breakdown |-> {entries[i].activity_breakdown[k] :
                                 k \in DOMAIN entries[i].activity_breakdown},
       daily_activity |-> entries[i].daily_activity] : i \in DOMAIN entries }

\* C23: whatever the order in which the requests of a batch complete, every
\* contributor of the year snapshot has the total_points, activity_breakdown
\* and daily_activity of the run whose requests complete in the order they
\* were sent.
C23_OrderIndependent ==
    YearWritten => Aggregates(disk.year.entries) = Aggregates(YearEntries(InOrderUsers))

\* A year snapshot was written by a run whose events arrived in an order other
\* than that of the issues: the logs differ, the aggregates do not.
C23_Witness ==
    /\ YearWritten
    /\ \E i \in DOMAIN disk.year.entries :
          \E j \in DOMAIN InOrderUsers :
             /\ InOrderUsers[j].username = disk.year.entries[i].username
             /\ InOrderUsers[j].raw_activities # disk.year.entries[i].raw_activities
             /\ InOrderUsers[j].total_points = disk.year.entries[i].total_points

\* the role an entry list stores for a contributor
StoredRole(entries, login) == entries[IndexOf(entries, login)].role

\* C24: an entry of the year snapshot whose contributor the fetch phase of the
\* run did not create has the role the prior snapshot stored; an entry whose
\* contributor the fetch phase created has the role the membership sets give.
C24_RoleKeptFromSnapshot ==
    YearWritten =>
       \A i \in DOMAIN disk.year.entries :
          LET entry == disk.year.entries[i]
          IN IF Has(InOrderFetched, entry.username)
             THEN entry.role = resolveRole(entry.username)
             ELSE /\ isIncremental
                  /\ Has(existing.entries, entry.username)
                  /\ entry.role = StoredRole(existing.entries, entry.username)

\* carol, stored as a maintainer and an alumna by now, was not fetched by the
\* run and is written as a maintainer.
C24_Witness ==
    /\ YearWritten
    /\ ~Has(InOrderFetched, "carol")
    /\ resolveRole("carol") = "Alumni"
    /\ Has(disk.year.entries, "carol")
    /\ StoredRole(disk.year.entries, "carol") = "Maintainer"

-----------------------------------------------------------------------------
(* Runs over activities around the start of the recent-activity window *)

\* pull requests opened 15, 14 and 13 days before T0, at several times of day
RecentUniverse ==
    { PullRequest("pw1", "81", "bob", "User", "T81", T0 - Days(RecentDays + 1) + 2, NoTime),
      PullRequest("pw2", "82", "bob", "User", "T82", T0 - Days(RecentDays), NoTime),
      PullRequest("pw3", "83", "alice", "User", "T83", T0 - Days(RecentDays) + 1, NoTime),
      PullRequest("pw4", "84", "alice", "User", "T84", T0 - Days(RecentDays) + 2, NoTime),
      PullRequest("pw5", "85", "bob", "User", "T85", T0 - Days(RecentDays - 1), NoTime) }

RecentWorlds ==
    { [prs |-> S, reviews |-> {}, issues |-> {}, events |-> {}, repos |-> OrgRepos,
       failing |-> {}] :
      S \in {X \in SUBSET RecentUniverse : Cardinality(X) >= 2} }

InitRecent ==
    /\ clock = T0
    /\ world \in RecentWorlds
    /\ disk = NoDisk
    /\ pc = "idle"
    /\ now = 0
    /\ since = 0
    /\ existing = NoFile
    /\ isIncremental = FALSE
    /\ users = <<>>
    /\ yearData = NoFile
    /\ runs = 0
    /\ input = <<>>
    /\ response = NoResponse
    /\ allRepos = <<>>
    /\ written = {}
    /\ requests = <<>>
    /\ batches = <<>>
    /\ inFlight = {}
    /\ reviewResults = {}
    /\ reviewSeen = {}

SpecRecent == InitRecent /\ [][Next]_vars

\* the four files on disk are those of one finished run
RunFinished == pc = "idle" /\ runs > 0

\* the item the feed shows for an activity of an entry
FeedItem(entry, act) ==
    [username |-> entry.username, title |-> act.title, link |-> act.link,
     points |-> act.points]

\* how often the group of day `day` of the feed holds `item`
TimesInFeed(feed, day, item) ==
    Cardinality({p \in UNION {{<<g, k>> : k \in DOMAIN feed.groups[g].items} :
                                 g \in DOMAIN feed.groups} :
                   /\ feed.groups[p[1]].date = day
                   /\ feed.groups[p[1]].items[p[2]] = item})

\* how many activities of the year snapshot of day `day`, not older than
\* `cutoff`, show as `item`
TimesInYear(year, day, item, cutoff) ==
    Cardinality({p \in UNION {{<<i, k>> : k \in DOMAIN year.entries[i].raw_activities} :
                                 i \in DOMAIN year.entries} :
                   LET act == year.entries[p[1]].raw_activities[p[2]]
                      IN /\ Day(act.occured_at) = day
                         /\ act.occured_at >= cutoff
                         /\ FeedItem(year.entries[p[1]], act) = item})

FeedDays(feed, year) ==
    {feed.groups[g].date : g \in DOMAIN feed.groups}
      \cup UNION {{Day(year.entries[i].raw_activities[k].occured_at) :
                     k \in DOMAIN year.entries[i].raw_activities} :
                  i \in DOMAIN year.entries}

FeedItems(feed, year) ==
    UNION {{feed.groups[g].items[k] : k \in DOMAIN feed.groups[g].items} :
             g \in DOMAIN feed.groups}
      \cup UNION {{FeedItem(year.entries[i], year.entries[i].raw_activities[k]) :
                     k \in DOMAIN year.entries[i].raw_activities} :
                  i \in DOMAIN year.entries}

\* the feed holds, in the group of each day, the activities of that day that
\* are not older than `cutoff`, and nothing else
FeedIsWindow(feed, year, cutoff) ==
    \A day \in FeedDays(feed, year), item \in FeedItems(feed, year) :
       TimesInFeed(feed, day, item) = TimesInYear(year, day, item, cutoff)

StartOfDay(t) == Day(t) * TicksPerDay

\* The part of C25 the code keeps: the feed holds the activities of the days
\* that begin at or after the cutoff, so it holds the whole window when the
\* feed is generated at the first instant of a day.
C25_RecentWholeDays ==
    RunFinished =>
       LET cutoff == disk.recent.updatedAt - Days(RecentDays)
       IN /\ FeedIsWindow(disk.recent, disk.year,
                          IF StartOfDay(cutoff) = cutoff THEN cutoff
                          ELSE StartOfDay(cutoff) + TicksPerDay)
          /\ \A g \in DOMAIN disk.recent.groups :
                disk.recent.groups[g].date * TicksPerDay >= cutoff

-----------------------------------------------------------------------------
(* Recomputation before persistence *)

\* C26: when a run is about to write its first file, its contributors are the
\* result of deduplicateAndRecalculate on everything fetched and merged, for
\* one of the orders in which the events requests can complete; the
\* first file written is year.json, with the entries of these contributors.
C26_RecomputedBeforeWrite ==
    /\ [](pc = "writeYear" =>
            \E order \in CompletionOrders(chunk(updatedIssues(since, now), batchSize)) :
               users = RecomputedFrom(FetchedIn(order)))
    /\ [][(written' # written /\ pc' # "prsOpened")
            => /\ (written = {}) <=> (pc = "writeYear")
               /\ (pc = "writeYear") =>
                     (written' = {"year"} /\ disk'.year.entries = YearEntries(users))]_vars

\* An incremental run is about to write: the merged history has been
\* recomputed into the derived fields, which the fetch phase alone did not fill.
C26_Witness ==
    /\ pc = "writeYear"
    /\ isIncremental
    /\ \E i \in DOMAIN users :
          /\ ~Has(InOrderFetched, users[i].username)
          /\ users[i].total_points > 0
          /\ users[i].daily_activity # <<>>

-----------------------------------------------------------------------------
(* Reviews across runs *)

\* the reviews of a log: its 'Review submitted' activities
ReviewsIn(log) == SelectSeq(log, LAMBDA act : act.type = "Review submitted")

OneReviewPerLink(log) ==
    \A j, k \in DOMAIN ReviewsIn(log) :
       ReviewsIn(log)[j].link = ReviewsIn(log)[k].link => j = k

\* C27: no contributor of the year snapshot has two 'Review submitted'
\* activities for the same pull request link.
C27_OneReviewPerPullRequest ==
    \A i \in DOMAIN disk.year.entries :
       OneReviewPerLink(disk.year.entries[i].raw_activities)

\* The part of C27 the code keeps: the reviews a single run fetches hold one
\* review per reviewer and pull request.
C27_OneReviewPerRun ==
    pc \in {"triage", "merge"} =>
       \A i \in DOMAIN users : OneReviewPerLink(users[i].raw_activities)

\* alice approved pv1 before the first run and again after it; the second run
\* has written both approvals into her entry.
C27_ReviewedAgainLater ==
    /\ YearWritten
    /\ runs = 2
    /\ \E i \in DOMAIN disk.year.entries :
          /\ disk.year.entries[i].username = "alice"
          /\ \E j, k \in DOMAIN disk.year.entries[i].raw_activities :
                LET first == disk.year.entries[i].raw_activities[j]
                    second == disk.year.entries[i].raw_activities[k]
                IN /\ first.type = "Review submitted" /\ second.type = "Review submitted"
                   /\ first.link = "pv1" /\ second.link = "pv1"
                   /\ first.occured_at = T0 - 1
                   /\ second.occured_at = T0 + 2

-----------------------------------------------------------------------------
(* searchByDateChunks on its own: the requests it sends *)

\* Issues for the search: some on the days where two windows meet, and a number
\* of them on one day, up to one more than the platform serves.
OnOneDay ==
    {0, 1, PerPage, PerPage + 1, PerPage * ResultPages - 1, PerPage * ResultPages,
     PerPage * ResultPages + 1}

SearchIssue(n, created) ==
    Issue(ToString(n), n, "dave", "User", "found", created)

SearchWorlds ==
    {[NoWorld EXCEPT !.issues = {SearchIssue(100 + d, T0 - Days(d)) : d \in between}
                                   \cup {SearchIssue(n, T0 - Days(2)) : n \in 1..k},
                     !.failing = failing] :
        between \in SUBSET {StepDays, StepDays + 5},
        k \in OnOneDay,
        failing \in {{}, {<<"search", "is:issue">>}}}

\* The calls of searchByDateChunks: a query, start and end, the platform at the
\* time of the call.
InitSearch ==
    /\ now \in {T0, T0 + 1}
    /\ since \in {now - Days(2 * StepDays + 5), now - Days(2 * StepDays),
                  now - Days(StepDays), now - Days(WeekDays), now - 1, now}
    /\ clock = now
    /\ world \in SearchWorlds
    /\ input = "is:issue"
    /\ disk = NoDisk
    /\ pc = "search"
    /\ existing = NoFile
    /\ isIncremental = FALSE
    /\ users = <<>>
    /\ yearData = NoFile
    /\ runs = 0
    /\ response = NoResponse
    /\ allRepos = <<>>
    /\ written = {}
    /\ requests = <<>>
    /\ batches = <<>>
    /\ inFlight = {}
    /\ reviewResults = {}
    /\ reviewSeen = {}

\* await searchByDateChunks(query, since, now): the requests it sends, and
\* whether it returns or rejects
Search ==
    /\ pc = "search"
    /\ requests' = SearchRequests(input, since, now, StepDays)
    /\ pc' = IF SearchThrows(input, since, now) THEN "aborted" ELSE "searched"
    /\ UNCHANGED <<clock, world, disk, now, since, existing, isIncremental, users,
                   yearData, runs, input, response, allRepos, written, batches,
                   inFlight, reviewResults, reviewSeen>>

NextSearch == Search

SpecSearch == InitSearch /\ [][NextSearch]_vars

\* the first request of every window, in the order the windows are searched
Windows == SelectSeq(requests, LAMBDA r : r.page = 1)

\* the days a window's query covers
DaysOf(w) == {d \in iso(since)..iso(now) : w.from <= d /\ d <= w.to}

\* the items the requests of window number i brought back
ReturnedBy(i) ==
    UNION {{r.items[k] : k \in DOMAIN r.items} :
              r \in {requests[j] : j \in {x \in DOMAIN requests :
                                            /\ requests[x].from = Windows[i].from
                                            /\ requests[x].to = Windows[i].to}}}

WindowsConsecutive ==
    /\ Windows # <<>>
    /\ Windows[1].from = iso(since)
    /\ Windows[Len(Windows)].to = iso(now)
    /\ \A i \in DOMAIN Windows : Windows[i].to - Windows[i].from <= StepDays
    /\ \A i \in 1..(Len(Windows) - 1) : Windows[i + 1].from = Windows[i].to

WindowsDisjoint ==
    \A i, j \in DOMAIN Windows :
       i # j => /\ DaysOf(Windows[i]) \cap DaysOf(Windows[j]) = {}
                /\ ReturnedBy(i) \cap ReturnedBy(j) = {}

\* C28: a search from start to end, start < end, that returns has gone through
\* consecutive windows of at most stepDays days, the first beginning at start,
\* each next one beginning where the previous one ended and the last ending at
\* end, and the date ranges of two windows share no day, so that no item is
\* returned by two windows.
C28_WindowsPartition ==
    (pc = "searched" /\ since < now) => (WindowsConsecutive /\ WindowsDisjoint)

\* C28, the part that holds: the windows are consecutive, at most stepDays days
\* long, from start to end, and there are finitely many of them.
C28_WindowsConsecutive ==
    (pc = "searched" /\ since < now) => WindowsConsecutive

\* C28, the case that fails: an issue created on the day where two windows meet
\* is returned by both.
C28_ReturnedTwice ==
    /\ pc = "searched"
    /\ \E i, j \in DOMAIN Windows : i # j /\ ReturnedBy(i) \cap ReturnedBy(j) # {}

-----------------------------------------------------------------------------
(* searchByDateChunks: the pages of a window *)

\* request number i is the first of its window
FirstOfWindow(i) == requests[i].page = 1

\* request number i asks for the page after the one of request number i - 1, in
\* the same window
NextPage(i) ==
    /\ requests[i].from = requests[i - 1].from
    /\ requests[i].to = requests[i - 1].to
    /\ requests[i].page = requests[i - 1].page + 1

FullPage(r) == r.ok /\ Len(r.items) = PerPage

ShortPage(r) == r.ok /\ Len(r.items) < PerPage

C30_WithinResultCap ==
    \A i \in DOMAIN requests : requests[i].page <= ResultPages

\* C30, the part that holds: unless the platform refuses the query as a whole, a
\* search rejects only after the last page the platform serves came back full.
C30_BelowCapReturns ==
    (pc = "aborted" /\ world.failing = {}) =>
       \E i \in DOMAIN requests :
          /\ requests[i].page = ResultPages
          /\ FullPage(requests[i])

\* C30, the case that fails: the last page the platform serves came back full,
\* the page after it is requested and refused, and the search rejects.
C30_PageBeyondCap ==
    /\ pc = "aborted"
    /\ world.failing = {}
    /\ requests[Len(requests)].page = ResultPages + 1

-----------------------------------------------------------------------------
(* The fetch windows of consecutive runs *)

\* the step that starts a run on the year snapshot the run before it wrote
StartsOnPreviousSnapshot ==
    /\ pc \in {"idle", "aborted"}
    /\ pc' = "prsOpened"
    /\ "year" \in written
    /\ isIncremental'

\* C32: a run that starts incrementally on the snapshot written by the run before
\* it has a fetch window that begins no later than the end (`now`) of the window
\* of that run, so that the two windows [since, now] leave no time between them
\* uncovered.
C32_WindowsLeaveNoGap ==
    [][StartsOnPreviousSnapshot => since' <= now]_vars

\* C32, the part that holds: the window of the later run begins exactly at the
\* cursor of the snapshot, which is never before the end of the earlier window.
C32_WindowStartsAtCursor ==
    [][StartsOnPreviousSnapshot
         => (since' = disk.year.lastFetchedAt /\ since' >= now)]_vars

\* C32, the case that fails: a finished run whose snapshot carries a cursor later
\* than the end of the run's own window.
C32_CursorPastWindow ==
    /\ pc = "idle"
    /\ "year" \in written
    /\ disk.year.status = "ok"
    /\ disk.year.lastFetchedAt > now

-----------------------------------------------------------------------------
(* The display window of the year snapshot *)

\* every raw activity of the file lies on a day of [startDate, endDate]
WithinDisplayWindow(file) ==
    \A i \in DOMAIN file.entries :
       \A j \in DOMAIN file.entries[i].raw_activities :
          /\ file.startDate <= iso(file.entries[i].raw_activities[j].occured_at)
          /\ iso(file.entries[i].raw_activities[j].occured_at) <= file.endDate

\* the year snapshot on disk was written by the current or the last run
YearOfRun == "year" \in written /\ disk.year.status = "ok"

\* C33: in every year snapshot a run has written, after full and incremental
\* runs in any sequence, every raw activity of every entry lies within the
\* snapshot's declared window [startDate, endDate], so that nothing older than
\* the trailing 365 days is counted.
C33_WithinDisplayWindow ==
    YearOfRun => WithinDisplayWindow(disk.year)

\* C33, the part that holds: the declared window runs from 365 days before the
\* time of writing to the day the run started, and the snapshot of a full run
\* has nothing from before the day its fetch began or after the day it started.
C33_FullRunWithinFetch ==
    YearOfRun =>
       /\ disk.year.startDate = iso(disk.year.updatedAt - Days(YearDays))
       /\ disk.year.endDate = iso(now)
       /\ ~isIncremental =>
             WithinDisplayWindow([disk.year EXCEPT !.startDate = iso(since)])

\* C33, the case that fails: after an incremental run an entry still holds, and
\* counts in total_points, an activity from before the declared window.
C33_StaleActivityCounted ==
    /\ YearOfRun
    /\ isIncremental
    /\ \E i \in DOMAIN disk.year.entries :
          LET e == disk.year.entries[i]
          IN /\ \E j \in DOMAIN e.raw_activities :
                   iso(e.raw_activities[j].occured_at) < disk.year.startDate
             /\ e.total_points = SumPoints(e.raw_activities)

-----------------------------------------------------------------------------
(* What deduplicateAndRecalculate drops *)

SameActivity(a, b) ==
    /\ a.type = b.type
    /\ a.occured_at = b.occured_at
    /\ a.link = b.link
    /\ a.title = b.title

\* every activity of the log `before` has an activity of the same type, time,
\* link and title in the log `after`
NothingDistinctDropped(before, after) ==
    \A j \in DOMAIN before : \E k \in DOMAIN after : SameActivity(before[j], after[k])

\* C34: deduplicateAndRecalculate drops an activity only if it keeps an earlier
\* one of the same contributor with the same type, occured_at, link and title:
\* of activities that differ in one of these, such as the title, all are kept.
C34_OnlyTrueDuplicatesDropped ==
    pc = "dedup1" =>
       \A i \in DOMAIN input :
          NothingDistinctDropped(input[i].raw_activities, users[i].raw_activities)

\* C34, the part that holds: a dropped activity has the key type:occured_at:
\* (link ?? title) of an activity that is kept.
C34_DroppedOnlyOnSameKey ==
    pc = "dedup1" =>
       \A i \in DOMAIN input :
          \A j \in DOMAIN input[i].raw_activities :
             \E k \in DOMAIN users[i].raw_activities :
                IdentityKey(input[i].raw_activities[j])
                   = IdentityKey(users[i].raw_activities[k])

\* C34, the case that fails: two activities with the same type, time and link
\* and different titles go in, one comes out.
C34_DifferentTitleDropped ==
    /\ pc = "dedup1"
    /\ \E i \in DOMAIN input :
          /\ Len(input[i].raw_activities) = 2
          /\ input[i].raw_activities[1].title # input[i].raw_activities[2].title
          /\ input[i].raw_activities[1].link = input[i].raw_activities[2].link
          /\ Len(users[i].raw_activities) = 1

\* C34, the same in a run: two labels put on one issue in the same second by the
\* same person, neither of them automated, give one 'Issue labeled' activity in
\* the year snapshot.
C34_TwoLabelsOneActivity ==
    /\ YearOfRun
    /\ \E e1, e2 \in world.events :
          /\ e1 # e2
          /\ e1.event = "labeled" /\ e2.event = "labeled"
          /\ e1.login = e2.login /\ e1.issue = e2.issue
          /\ e1.created_at = e2.created_at
          /\ since <= e1.created_at /\ e1.created_at <= now
          /\ ~isAutomatedLabel(e1.label) /\ ~isAutomatedLabel(e2.label)
          /\ \E i \in DOMAIN disk.year.entries :
                /\ disk.year.entries[i].username = e1.login
                /\ Len(OfType(disk.year.entries[i].raw_activities, "Issue labeled")) = 1

-----------------------------------------------------------------------------
(* The snapshots of one run, one inside the other *)

\* the run has written the year, week and month snapshots
AllPeriodsOfRun ==
    /\ {"year", "week", "month"} \subseteq written
    /\ disk.year.status = "ok" /\ disk.week.status = "ok" /\ disk.month.status = "ok"

Contributors(file) == {file.entries[i].username : i \in DOMAIN file.entries}

Contained(inner, outer) ==
    \A j \in DOMAIN inner : \E k \in DOMAIN outer : inner[j] = outer[k]

\* C35: of the snapshots one run writes, the contributors of the week snapshot
\* are contributors of the month snapshot and those of the month snapshot are
\* contributors of the year snapshot; for each of them the total_points do not
\* decrease from week to month to year, the week's activities are among the
\* month's and the month's among the year's raw_activities.
C35_SnapshotsNested ==
    AllPeriodsOfRun =>
       /\ Contributors(disk.week) \subseteq Contributors(disk.month)
       /\ Contributors(disk.month) \subseteq Contributors(disk.year)
       /\ \A u \in Contributors(disk.week) :
             /\ EntryOf(disk.week, u).total_points <= EntryOf(disk.month, u).total_points
             /\ Contained(EntryOf(disk.week, u).activities,
                          EntryOf(disk.month, u).activities)
       /\ \A u \in Contributors(disk.month) :
             /\ EntryOf(disk.month, u).total_points <= EntryOf(disk.year, u).total_points
             /\ Contained(EntryOf(disk.month, u).activities,
                          EntryOf(disk.year, u).raw_activities)

\* C35, its case: a contributor with activities in the week, more of them in
\* the month and still more in the year.
C35_Witness ==
    /\ AllPeriodsOfRun
    /\ \E u \in Contributors(disk.week) :
          /\ Len(EntryOf(disk.week, u).activities) < Len(EntryOf(disk.month, u).activities)
          /\ Len(EntryOf(disk.month, u).activities)
                < Len(EntryOf(disk.year, u).raw_activities)
          /\ EntryOf(disk.week, u).total_points < EntryOf(disk.month, u).total_points
          /\ EntryOf(disk.month, u).total_points < EntryOf(disk.year, u).total_points

=============================================================================
